---- MODULE Spec2Model ----
(***************************************************************************)
(* A state-machine model of the node tree of dawm (dom.ts) and of the     *)
(* list storage behind its collections (collections.ts).                   *)
(*                                                                         *)
(* A node is a name; the tree is the record `dom` of the fields every     *)
(* Node carries (five structural links, ownerDocument) and of the backing *)
(* sequence of its childNodes list.  A call that throws keeps the writes  *)
(* it made before the throw.                                               *)
(***************************************************************************)
EXTENDS Integers, Sequences, FiniteSets, TLC

VARIABLES dom, last, nops, coll, lastRead, cache, wire, attrs, objs, tok, ds, sel

vars == <<dom, last, nops, coll, lastRead, cache, wire, attrs, objs, tok, ds, sel>>

\* State of objects other than the tree and the kept collection.
ext == <<cache, wire, attrs, objs, tok, ds, sel>>

\* ------------------------------------------------------------------------
\* Node universe
\* ------------------------------------------------------------------------

Null == "null"

Documents == {"doc"}
Fragments == {"frag"}
Elements == {"e1", "e2", "e3"}
Texts == {"t1"}
Attrs == {"attr"}

Nodes == Documents \cup Fragments \cup Elements \cup Texts \cup Attrs

\* Longest sequence of operations explored from the initial state.
MaxOps == 3

ELEMENT_NODE == 1
ATTRIBUTE_NODE == 2
TEXT_NODE == 3
DOCUMENT_NODE == 9
DOCUMENT_FRAGMENT_NODE == 11

nodeType(n) ==
  CASE n \in Elements -> ELEMENT_NODE
    [] n \in Attrs -> ATTRIBUTE_NODE
    [] n \in Texts -> TEXT_NODE
    [] n \in Documents -> DOCUMENT_NODE
    [] n \in Fragments -> DOCUMENT_FRAGMENT_NODE

\* Element.tagName of the elements of the universe.
tagName(n) == IF n = "e3" THEN "HEAD" ELSE "A"

\* Properties the Document constructor redefines as non-writable and
\* non-configurable on the instance; an assignment to one of them throws.
ReadOnlyDocumentProps ==
  {"ownerDocument", "parentNode", "previousSibling", "nextSibling"}

\* ------------------------------------------------------------------------
\* Results of calls: the tree after the call, whether it threw, its value
\* ------------------------------------------------------------------------

Ok(d, v) == [dom |-> d, threw |-> FALSE, ret |-> v]
Throw(d) == [dom |-> d, threw |-> TRUE, ret |-> Null]

\* One property assignment `n.prop = v`.
SetProp(d, prop, n, v) ==
  IF n \in Documents /\ prop \in ReadOnlyDocumentProps
    THEN Throw(d)
    ELSE Ok([d EXCEPT ![prop][n] = v], v)

\* The tree after a run of writes that stops at the first one that throws.
RECURSIVE ApplyWritesFrom(_, _)
ApplyWritesFrom(r, ws) ==
  IF r.threw \/ ws = <<>> THEN r
  ELSE ApplyWritesFrom(SetProp(r.dom, ws[1][1], ws[1][2], ws[1][3]), Tail(ws))

\* A straight-line run of property assignments <<prop, n, v>>.
ApplyWrites(d, ws) == ApplyWritesFrom(Ok(d, Null), ws)

\* The outcome of a call whose last statements were the writes with outcome
\* r, followed by `return v`.
Returning(r, v) == IF r.threw THEN r ELSE Ok(r.dom, v)

\* ------------------------------------------------------------------------
\* LinkedList storage of a list and the proxy traps that reach it
\* (a storage is the sequence of its values, index 0 first)
\* ------------------------------------------------------------------------

\* LinkedList.at
at(L, i) == IF i >= 0 /\ i < Len(L) THEN L[i + 1] ELSE Null

\* `has` trap of an index
hasIndex(L, i) == at(L, i) # Null

RECURSIVE ensureIndex(_, _)
ensureIndex(L, index) ==
  IF Len(L) <= index THEN ensureIndex(Append(L, Null), index) ELSE L

setListIndex(L, index, value) ==
  [ensureIndex(L, index) EXCEPT ![index + 1] = value]

deleteListIndex(L, index) ==
  IF index < 0 \/ index >= Len(L) THEN L
  ELSE SubSeq(L, 1, index) \o SubSeq(L, index + 2, Len(L))

trimList(L, length) ==
  IF length >= Len(L) THEN L
  ELSE IF length < 0 THEN <<>>
  ELSE SubSeq(L, 1, length)

\* Array.prototype.indexOf applied to a list proxy
RECURSIVE indexOfFrom(_, _, _)
indexOfFrom(L, x, k) ==
  IF k >= Len(L) THEN -1
  ELSE IF hasIndex(L, k) /\ at(L, k) = x THEN k
  ELSE indexOfFrom(L, x, k + 1)

indexOf(L, x) == indexOfFrom(L, x, 0)

\* Array.prototype.splice applied to a list proxy: the element moves go
\* through the has / get / set / deleteProperty traps and the final length
\* assignment through trimList.

\* One element move of splice: `if (from in O) O[to] = O[from]; else delete O[to]`.
spliceMove(L, from, to) ==
  IF hasIndex(L, from) THEN setListIndex(L, to, at(L, from))
                       ELSE deleteListIndex(L, to)

RECURSIVE spliceShiftDown(_, _, _, _, _)
spliceShiftDown(L, k, len, delCount, itemCount) ==
  IF k >= len - delCount THEN L
  ELSE spliceShiftDown(spliceMove(L, k + delCount, k + itemCount),
                       k + 1, len, delCount, itemCount)

RECURSIVE spliceDeleteTail(_, _, _)
spliceDeleteTail(L, k, stop) ==
  IF k <= stop THEN L
  ELSE spliceDeleteTail(deleteListIndex(L, k - 1), k - 1, stop)

RECURSIVE spliceShiftUp(_, _, _, _, _)
spliceShiftUp(L, k, start, delCount, itemCount) ==
  IF k <= start THEN L
  ELSE spliceShiftUp(spliceMove(L, k + delCount - 1, k + itemCount - 1),
                     k - 1, start, delCount, itemCount)

RECURSIVE spliceSetItems(_, _, _)
spliceSetItems(L, k, items) ==
  IF items = <<>> THEN L
  ELSE spliceSetItems(setListIndex(L, k, Head(items)), k + 1, Tail(items))

\* splice's relative start and delete count, clamped to the list
spliceStart(start, len) ==
  IF start < 0 THEN (IF len + start < 0 THEN 0 ELSE len + start)
  ELSE IF start > len THEN len ELSE start

spliceCount(deleteCount, room) ==
  IF deleteCount < 0 THEN 0
  ELSE IF deleteCount > room THEN room ELSE deleteCount

\* splice making room for (or closing the gap left by) the items
spliceShift(L, len, actualStart, delCount, itemCount) ==
  IF itemCount < delCount
    THEN spliceDeleteTail(
           spliceShiftDown(L, actualStart, len, delCount, itemCount),
           len, len - delCount + itemCount)
  ELSE IF itemCount > delCount
    THEN spliceShiftUp(L, len - delCount, actualStart, delCount, itemCount)
  ELSE L

spliceAt(L, actualStart, delCount, items) ==
  trimList(spliceSetItems(spliceShift(L, Len(L), actualStart, delCount, Len(items)),
                          actualStart, items),
           Len(L) - delCount + Len(items))

spliceFrom(L, actualStart, deleteCount, items) ==
  spliceAt(L, actualStart, spliceCount(deleteCount, Len(L) - actualStart), items)

splice(L, start, deleteCount, items) ==
  spliceFrom(L, spliceStart(start, Len(L)), deleteCount, items)

\* ------------------------------------------------------------------------
\* Node: removeChild, insertBefore, appendChild, replaceChild
\* ------------------------------------------------------------------------

\* removeChild's writes once oldChild is out of the list: the neighbours are
\* linked to each other, the edge pointers of `this` follow, oldChild's own
\* links are nulled.
removeWrites(d, this, oldChild) ==
     (IF d.previousSibling[oldChild] # Null
        THEN << <<"nextSibling", d.previousSibling[oldChild],
                  d.nextSibling[oldChild]>> >>
        ELSE <<>>)
  \o (IF d.nextSibling[oldChild] # Null
        THEN << <<"previousSibling", d.nextSibling[oldChild],
                  d.previousSibling[oldChild]>> >>
        ELSE <<>>)
  \o (IF d.firstChild[this] = oldChild
        THEN << <<"firstChild", this, d.nextSibling[oldChild]>> >> ELSE <<>>)
  \o (IF d.lastChild[this] = oldChild
        THEN << <<"lastChild", this, d.previousSibling[oldChild]>> >> ELSE <<>>)
  \o << <<"parentNode", oldChild, Null>>,
        <<"previousSibling", oldChild, Null>>,
        <<"nextSibling", oldChild, Null>> >>

\* removeChild after `splice(this.childNodes, index, 1)`.
removeLinks(d, this, oldChild) ==
  Returning(ApplyWrites(d, removeWrites(d, this, oldChild)), oldChild)

\* removeAt that returns quietly when oldChild is not in the child list.
removeAt_Lenient(d, this, oldChild, index) ==
  IF index = -1 THEN Ok(d, oldChild)
  ELSE removeLinks([d EXCEPT !.childNodes[this] = splice(@, index, 1, <<>>)],
                   this, oldChild)

\* removeChild from the test of `index` on.
removeAt(d, this, oldChild, index) ==
  IF index = -1 THEN Throw(d)
  ELSE removeLinks([d EXCEPT !.childNodes[this] = splice(@, index, 1, <<>>)],
                   this, oldChild)

removeChild(d, this, oldChild) ==
  IF this \in Attrs THEN Throw(d)
  ELSE removeAt(d, this, oldChild, indexOf(d.childNodes[this], oldChild))

\* Bound on the iterations of one walk over a list or a sibling chain; a
\* walk that needs more is reported as not returning.
MaxWalk == 2 * Cardinality(Nodes) + 2

\* insertWrites that leaves refChild.previousSibling as it was.
insertWrites_NoBackLink(d, this, newChild, previousSibling, nextSibling) ==
     (IF previousSibling # Null
        THEN << <<"nextSibling", previousSibling, newChild>> >> ELSE <<>>)
  \o << <<"previousSibling", newChild, previousSibling>>,
        <<"nextSibling", newChild, nextSibling>>,
        <<"parentNode", newChild, this>>,
        <<"ownerDocument", newChild, d.ownerDocument[this]>>,
        <<"firstChild", this, at(d.childNodes[this], 0)>>,
        <<"lastChild", this,
          at(d.childNodes[this], Len(d.childNodes[this]) - 1)>> >>

\* insertBefore's writes once newChild is in the list: the neighbours are
\* linked to newChild, newChild to them, to `this` and to its document, and
\* the edge pointers of `this` are read back from the list.
insertWrites(d, this, newChild, previousSibling, nextSibling) ==
     (IF previousSibling # Null
        THEN << <<"nextSibling", previousSibling, newChild>> >> ELSE <<>>)
  \o (IF nextSibling # Null
        THEN << <<"previousSibling", nextSibling, newChild>> >> ELSE <<>>)
  \o << <<"previousSibling", newChild, previousSibling>>,
        <<"nextSibling", newChild, nextSibling>>,
        <<"parentNode", newChild, this>>,
        <<"ownerDocument", newChild, d.ownerDocument[this]>>,
        <<"firstChild", this, at(d.childNodes[this], 0)>>,
        <<"lastChild", this,
          at(d.childNodes[this], Len(d.childNodes[this]) - 1)>> >>

\* insertBefore after `splice(children, index, 0, newChild)`.
insertLinks(d, this, newChild, previousSibling, nextSibling) ==
  Returning(
    ApplyWrites(d, insertWrites(d, this, newChild, previousSibling, nextSibling)),
    newChild)

\* insertBefore from the test of `index` on; previousSibling is read before
\* the splice.
insertAt(d, this, newChild, refChild, index) ==
  IF refChild # Null /\ index = -1 THEN Throw(d)
  ELSE insertLinks(
         [d EXCEPT !.childNodes[this] = splice(@, index, 0, <<newChild>>)],
         this, newChild,
         IF refChild # Null
           THEN d.previousSibling[refChild]
           ELSE at(d.childNodes[this], Len(d.childNodes[this]) - 1),
         refChild)

\* `if (newChild.parentNode) newChild.parentNode.removeChild(newChild)`
detach(d, newChild) ==
  IF d.parentNode[newChild] # Null
    THEN removeChild(d, d.parentNode[newChild], newChild)
    ELSE Ok(d, Null)

\* insertBefore after the detaching of newChild, whose outcome is r.
insertDetached(r, this, newChild, refChild) ==
  IF r.threw THEN r
  ELSE insertAt(r.dom, this, newChild, refChild,
                IF refChild # Null
                  THEN indexOf(r.dom.childNodes[this], refChild)
                  ELSE Len(r.dom.childNodes[this]))

\* insertBefore from the detaching of newChild on: newChild is no fragment,
\* differs from refChild, and refChild (if any) names `this` as its parent.
insertNode(d, this, newChild, refChild) ==
  insertDetached(detach(d, newChild), this, newChild, refChild)

RECURSIVE insertBefore(_, _, _, _)
RECURSIVE insertFragmentChildren(_, _, _, _, _)

\* `for (const child of newChild.childNodes) this.insertBefore(child, ref)`:
\* the iterator of the list proxy reads the storage once and then walks it by
\* index, testing the index against the storage's current length; r is the
\* outcome of the iterations so far.
insertFragmentChildren(r, this, newChild, refChild, i) ==
  IF r.threw THEN r
  ELSE IF i >= Len(r.dom.childNodes[newChild]) \/ i > MaxWalk
    THEN Ok(r.dom, newChild)
  ELSE insertFragmentChildren(
         insertBefore(r.dom, this, at(r.dom.childNodes[newChild], i), refChild),
         this, newChild, refChild, i + 1)

insertBefore(d, this, newChild, refChild) ==
  IF this \in Attrs THEN Throw(d)
  ELSE IF newChild = refChild THEN Ok(d, newChild)
  ELSE IF refChild # Null /\ d.parentNode[refChild] # this THEN Throw(d)
  ELSE IF newChild \in Fragments
    THEN insertFragmentChildren(Ok(d, Null), this, newChild, refChild, 0)
  ELSE insertNode(d, this, newChild, refChild)

appendChild(d, this, newChild) ==
  IF this \in Attrs THEN Throw(d) ELSE insertBefore(d, this, newChild, Null)

\* replaceChild after its insertBefore, whose outcome is r.
replaceInserted(r, this, oldChild) ==
  IF r.threw THEN r ELSE removeChild(r.dom, this, oldChild)

replaceChild(d, this, newChild, oldChild) ==
  IF this \in Attrs THEN Throw(d)
  ELSE IF d.parentNode[oldChild] # Null /\ d.parentNode[oldChild] # this
    THEN Throw(d)
  ELSE replaceInserted(insertBefore(d, this, newChild, oldChild), this, oldChild)

\* ------------------------------------------------------------------------
\* The state machine
\* ------------------------------------------------------------------------

\* Nodes the mutation calls draw their receiver and arguments from.
TreePool == Documents \cup Fragments \cup Elements
Receivers == TreePool \cup Attrs

\* The class attribute element e2 is created with; the other elements are
\* created without one.  `className` holds <<value>> or <<>> for none.
ClassOfE2 == <<"a", " ", "b">>

InitDom ==
  [parentNode |-> [n \in Nodes |-> Null],
   firstChild |-> [n \in Nodes |-> Null],
   lastChild |-> [n \in Nodes |-> Null],
   previousSibling |-> [n \in Nodes |-> Null],
   nextSibling |-> [n \in Nodes |-> Null],
   ownerDocument |-> [n \in Nodes |-> IF n \in Documents THEN n ELSE Null],
   childNodes |-> [n \in Nodes |-> <<>>],
   className |-> [n \in Nodes |-> IF n = "e2" THEN <<ClassOfE2>> ELSE <<>>]]

\* `last` is the call the caller has just made and not yet moved on from:
\* its name, receiver and arguments, whether it threw, what it returned and
\* the tree it was made on.
NoCall ==
  [op |-> "none", this |-> Null, newChild |-> Null, ref |-> Null,
   threw |-> FALSE, ret |-> Null, pre |-> InitDom]

\* Attr objects that attribute operations create, the elements that carry
\* attributes, and attribute names and values.
AttrPool == {"a1", "a2", "a3"}
AttrElements == {"e1", "e2"}
AttrNames == {"class", "id"}
AttrValues == {"v1", "v2"}

\* No Attr created yet (an Attr exists once it has a name), every
\* element's attribute map empty.
NoAttrs ==
  [list |-> [e \in AttrElements |-> <<>>],
   ownerElement |-> [a \in AttrPool |-> Null],
   name |-> [a \in AttrPool |-> Null],
   value |-> [a \in AttrPool |-> Null]]

\* No node object constructed for cloning or comparison, no call made.
NoEq == [this |-> 0, other |-> 0, ret |-> FALSE]
NoObjs == [heap |-> <<>>, calls |-> <<>>, eq |-> NoEq]

\* An element without the attribute, no token list obtained from it, no
\* call made.  Strings are sequences of characters.
NoTokOp == [name |-> "none", added |-> <<>>, removed |-> <<>>, ret |-> <<>>]
NoTok ==
  [has |-> FALSE, value |-> <<>>, created |-> FALSE, tokens |-> <<>>,
   op |-> NoTokOp]

\* An element without attributes, no dataset obtained, no call made.
\* `attr` maps attribute names to values, `data` keys to values (Null for
\* none); `node` tells whether the dataset has an owner element.
NoDsOp ==
  [name |-> "none", key |-> <<>>, value |-> Null, ret |-> Null,
   threw |-> FALSE, pre |-> <<>>]
NoDs ==
  [attr |-> <<>>, created |-> FALSE, node |-> FALSE, data |-> <<>>, op |-> NoDsOp]

\* No selector query has been made.  `selector` is the parsed selector,
\* `nodes` the list a querySelectorAll returned, `value` what querySelector
\* or matches returned.
NoSelector == [type |-> "none", left |-> <<>>, right |-> <<>>, combinator |-> ""]
NoSel ==
  [name |-> "none", root |-> Null, selector |-> NoSelector, nodes |-> <<>>,
   value |-> Null, threw |-> FALSE]

\* No wire document has been handed to the assembler.
NoId == -1
NoWire == [nodes |-> {}, firstChild |-> <<>>, nextSibling |-> <<>>]

\* Document's private #documentElement / #head before any read of them.
NoCache == [documentElement |-> Null, head |-> Null]

\* No collection has been obtained yet / no read is being looked at.
NoColl == [owner |-> Null, rule |-> "none", arg |-> "", hasGetter |-> FALSE,
           storage |-> <<>>]
NoRead == [kind |-> "none", index |-> 0, value |-> <<>>, stored |-> <<>>]

Init ==
  /\ dom = InitDom
  /\ last = NoCall
  /\ nops = 0
  /\ coll = NoColl
  /\ lastRead = NoRead
  /\ cache = NoCache
  /\ wire = NoWire
  /\ attrs = NoAttrs
  /\ objs = NoObjs
  /\ tok = NoTok
  /\ sel = NoSel
  /\ ds = NoDs

Call(name, this, newChild, ref, r) ==
  /\ last.op = "none"
  /\ nops < MaxOps
  /\ dom' = r.dom
  /\ last' = [op |-> name, this |-> this, newChild |-> newChild, ref |-> ref,
              threw |-> r.threw, ret |-> r.ret, pre |-> dom]
  /\ nops' = nops + 1
  /\ UNCHANGED <<coll, lastRead, ext>>

InsertBeforeOf(R, P) ==
  \E this \in R, newChild \in P, refChild \in P \cup {Null} :
    Call("insertBefore", this, newChild, refChild,
         insertBefore(dom, this, newChild, refChild))

AppendChildOf(R, P) ==
  \E this \in R, newChild \in P :
    Call("appendChild", this, newChild, Null, appendChild(dom, this, newChild))

ReplaceChildOf(R, P) ==
  \E this \in R, newChild \in P, oldChild \in P :
    Call("replaceChild", this, newChild, oldChild,
         replaceChild(dom, this, newChild, oldChild))

RemoveChildOf(R, P) ==
  \E this \in R, oldChild \in P :
    Call("removeChild", this, Null, oldChild, removeChild(dom, this, oldChild))

InsertBefore == InsertBeforeOf(Receivers, TreePool)
AppendChild == AppendChildOf(Receivers, TreePool)
ReplaceChild == ReplaceChildOf(Receivers, TreePool)
RemoveChild == RemoveChildOf(Receivers, TreePool)


\* The caller moves on to its next statement.
Continue ==
  /\ last.op # "none"
  /\ last' = NoCall
  /\ lastRead' = NoRead
  /\ UNCHANGED <<dom, nops, coll, ext>>

Next == InsertBefore \/ AppendChild \/ ReplaceChild \/ RemoveChild \/ Continue

Spec == Init /\ [][Next]_vars

\* ------------------------------------------------------------------------
\* Reading the tree
\* ------------------------------------------------------------------------

\* Marks a walk that did not reach null within MaxWalk steps.
Endless == "endless"

\* The nodes met from n by following the link `prop` until null.
RECURSIVE walk(_, _, _, _)
walk(d, prop, n, fuel) ==
  IF n = Null THEN <<>>
  ELSE IF fuel = 0 THEN <<Endless>>
  ELSE <<n>> \o walk(d, prop, d[prop][n], fuel - 1)

forwardChain(d, p) == walk(d, "nextSibling", d.firstChild[p], MaxWalk)
backwardChain(d, p) == walk(d, "previousSibling", d.lastChild[p], MaxWalk)
ancestors(d, n) == walk(d, "parentNode", d.parentNode[n], MaxWalk)

Range(s) == {s[i] : i \in 1..Len(s)}
Reverse(s) == [i \in 1..Len(s) |-> s[Len(s) + 1 - i]]
Count(s, x) == Cardinality({i \in 1..Len(s) : s[i] = x})
Without(s, x) == SelectSeq(s, LAMBDA y : y # x)

\* A tree in which lists, sibling chains and parent links all agree.
WellFormed(d) ==
  \A p \in Nodes :
    /\ forwardChain(d, p) = d.childNodes[p]
    /\ backwardChain(d, p) = Reverse(d.childNodes[p])
    /\ \A c \in Nodes : d.parentNode[c] = p <=> c \in Range(d.childNodes[p])
    /\ Endless \notin Range(ancestors(d, p))
    /\ p \notin Range(ancestors(d, p))

TypeOK ==
  /\ \A n \in Nodes : dom.parentNode[n] \in Nodes \cup {Null}
  /\ \A n \in Nodes : dom.childNodes[n] \in Seq(Nodes)
  /\ nops \in 0..MaxOps

\* ------------------------------------------------------------------------
\* Live element collections (HTMLCollection with a recompute function)
\* ------------------------------------------------------------------------

\* ParentNode.firstElementChild / nextElementSibling: the first Element met
\* from n along nextSibling (n included).
RECURSIVE elementFrom(_, _, _)
elementFrom(d, n, fuel) ==
  IF n = Null THEN Null
  ELSE IF fuel = 0 THEN Endless
  ELSE IF nodeType(n) = ELEMENT_NODE THEN n
  ELSE elementFrom(d, d.nextSibling[n], fuel - 1)

firstElementChild(d, this) == elementFrom(d, d.firstChild[this], MaxWalk)
nextElementSibling(d, this) == elementFrom(d, d.nextSibling[this], MaxWalk)

\* The recompute function of ParentNode.children.
RECURSIVE childrenFrom(_, _, _)
childrenFrom(d, n, fuel) ==
  IF n = Null THEN <<>>
  ELSE IF n = Endless \/ fuel = 0 THEN <<Endless>>
  ELSE <<n>> \o childrenFrom(d, nextElementSibling(d, n), fuel - 1)

childrenItems(d, this) == childrenFrom(d, firstElementChild(d, this), MaxWalk)

\* The recompute function of ParentNode.getElementsByTagName: `traverse`
\* goes to the next sibling while there is one and to the first child
\* otherwise.
RECURSIVE traverse(_, _, _, _)
traverse(d, node, tag, fuel) ==
  IF node = Null THEN <<>>
  ELSE IF fuel = 0 THEN <<Endless>>
  ELSE (IF nodeType(node) = ELEMENT_NODE /\ (tag = "*" \/ tagName(node) = tag)
          THEN <<node>> ELSE <<>>)
       \o traverse(d,
                   IF d.nextSibling[node] # Null THEN d.nextSibling[node]
                                                 ELSE d.firstChild[node],
                   tag, fuel - 1)

tagNameItems(d, this, tag) == traverse(d, d.firstChild[this], tag, MaxWalk)

\* The recompute function a collection was created with, applied to tree d.
getItems(d, c) ==
  IF c.rule = "children" THEN childrenItems(d, c.owner)
  ELSE tagNameItems(d, c.owner, c.arg)

\* A recompute that does not come back (the walk never reaches null).
Hangs(d, c) == c.hasGetter /\ Endless \in Range(getItems(d, c))

syncLinkedList(c, items) == [c EXCEPT !.storage = items]

\* refreshList that answers from the storage as it stands.
refreshList_Stale(d, c) == c

\* refreshList: re-derive the storage from the getter when there is one.
refreshList(d, c) ==
  IF c.hasGetter THEN syncLinkedList(c, getItems(d, c)) ELSE c

\* createHTMLCollection(owner, getItems): the storage starts as getItems().
createHTMLCollection(d, owner, rule, arg) ==
  LET c == [owner |-> owner, rule |-> rule, arg |-> arg,
            hasGetter |-> TRUE, storage |-> <<>>]
  IN [c EXCEPT !.storage = getItems(d, c)]

\* Nodes the calls on live collections' trees draw from.
LivePool == Elements \cup Texts
Tags == {"A", "*"}
Indexes == 0..2

LiveInsertBefore == InsertBeforeOf(LivePool, LivePool)
LiveAppendChild == AppendChildOf(LivePool, LivePool)
LiveRemoveChild == RemoveChildOf(LivePool, LivePool)

\* `owner.children` / `owner.getElementsByTagName(tag)`: a collection is
\* created and kept by the caller.
Obtain(c) ==
  /\ last.op = "none"
  /\ coll = NoColl
  /\ ~Hangs(dom, c)
  /\ coll' = c
  /\ UNCHANGED <<dom, last, nops, lastRead, ext>>

ObtainChildren ==
  \E owner \in Elements : Obtain(createHTMLCollection(dom, owner, "children", ""))

ObtainByTagName ==
  \E owner \in Elements, tag \in Tags :
    Obtain(createHTMLCollection(dom, owner, "tagName", tag))

\* What a read of `kind` (at `index`) answers from the refreshed storage L:
\* `length`, `[index]` and `item(index)` (null when out of range), or the
\* items an iteration yields.
readValue(kind, index, L) ==
  CASE kind = "length" -> Len(L)
    [] kind \in {"index", "item"} -> at(L, index)
    [] kind = "iterate" -> L

\* A read of the kept collection that returns: the storage is refreshed and
\* the answer is taken from it (`stored` is what the storage held before).
Read(kind, index) ==
  /\ last.op = "none"
  /\ coll # NoColl
  /\ ~Hangs(dom, coll)
  /\ coll' = refreshList(dom, coll)
  /\ lastRead' = [kind |-> kind, index |-> index,
                  value |-> readValue(kind, index, coll'.storage),
                  stored |-> coll.storage]
  /\ last' = [NoCall EXCEPT !.op = "read"]
  /\ UNCHANGED <<dom, nops, ext>>

ReadLength == Read("length", 0)

ReadIndex == \E k \in Indexes : Read("index", k)

ReadItem == \E k \in Indexes : Read("item", k)

ReadIterate == Read("iterate", 0)

NextLive ==
  \/ LiveInsertBefore \/ LiveAppendChild \/ LiveRemoveChild
  \/ ObtainChildren \/ ObtainByTagName
  \/ ReadLength \/ ReadIndex \/ ReadItem \/ ReadIterate
  \/ Continue

SpecLive == Init /\ [][NextLive]_vars

\* `collection[k] = x` on the kept collection: the `set` trap stores x in the
\* collection's storage (setListIndex) and touches nothing else.
WriteIndex ==
  \E k \in Indexes, x \in Elements :
    /\ last.op = "none"
    /\ nops < MaxOps
    /\ coll # NoColl
    /\ coll' = [coll EXCEPT !.storage = setListIndex(@, k, x)]
    /\ lastRead' = [kind |-> "write", index |-> k, value |-> x,
                    stored |-> coll.storage]
    /\ last' = [NoCall EXCEPT !.op = "write"]
    /\ nops' = nops + 1
    /\ UNCHANGED <<dom, ext>>

NextWrite ==
  \/ LiveAppendChild \/ LiveRemoveChild
  \/ ObtainChildren
  \/ ReadIndex
  \/ WriteIndex
  \/ Continue

SpecWrite == Init /\ [][NextWrite]_vars

\* ------------------------------------------------------------------------
\* Document.documentElement / Document.head
\* ------------------------------------------------------------------------

\* The first child of docEl that is an Element with tag name `head`, met
\* from node along nextSibling.
RECURSIVE headFrom(_, _, _)
headFrom(d, node, fuel) ==
  IF node = Null THEN Null
  ELSE IF fuel = 0 THEN Endless
  ELSE IF nodeType(node) = ELEMENT_NODE /\ tagName(node) = "HEAD" THEN node
  ELSE headFrom(d, d.nextSibling[node], fuel - 1)

\* `this.#documentElement ??= (first Element on the document's chain)`
documentElement(d, c, doc) ==
  IF c.documentElement # Null THEN c.documentElement
  ELSE firstElementChild(d, doc)

\* `this.#head ??= (first head element on documentElement's chain)`, docEl
\* being what `this.documentElement` returned.
head(d, c, docEl) ==
  IF c.head # Null THEN c.head
  ELSE IF docEl = Null THEN Null
  ELSE headFrom(d, d.firstChild[docEl], MaxWalk)

\* Nodes the calls on a document's tree draw from.
RolesPool == Elements

RolesAppendChild == AppendChildOf(Documents \cup RolesPool, RolesPool)
RolesRemoveChild == RemoveChildOf(Documents \cup RolesPool, RolesPool)
RolesReplaceChild == ReplaceChildOf(Documents, RolesPool)

\* A read of a role accessor that returns value v and leaves the private
\* fields as c.
ReadRole(kind, v, c) ==
  /\ last.op = "none"
  /\ v # Endless
  /\ cache' = c
  /\ lastRead' = [kind |-> kind, index |-> 0, value |-> v, stored |-> <<>>]
  /\ last' = [NoCall EXCEPT !.op = "read"]
  /\ UNCHANGED <<dom, nops, coll, wire, attrs, objs, tok, ds, sel>>

ReadDocumentElement ==
  \E doc \in Documents :
    ReadRole("documentElement", documentElement(dom, cache, doc),
             [cache EXCEPT !.documentElement = documentElement(dom, cache, doc)])

\* The getter of head reads `this.documentElement` only when #head is unset.
ReadHead ==
  \E doc \in Documents :
    ReadRole("head", head(dom, cache, documentElement(dom, cache, doc)),
             IF cache.head # Null THEN cache
             ELSE [documentElement |-> documentElement(dom, cache, doc),
                   head |-> head(dom, cache, documentElement(dom, cache, doc))])

NextRoles ==
  \/ RolesAppendChild \/ RolesRemoveChild \/ RolesReplaceChild
  \/ ReadDocumentElement \/ ReadHead
  \/ Continue

SpecRoles == Init /\ [][NextRoles]_vars

\* ------------------------------------------------------------------------
\* Tree assembler: buildSubtree / buildDocumentTree
\* ------------------------------------------------------------------------

\* Wire ids: 0 is the Document record, the others are element and text
\* records; instance(id) is the node instantiateDomNode creates for it.
WirePool == <<"e1", "e2", "e3", "t1">>
WireIds == 0..Len(WirePool)
instance(id) == IF id = 0 THEN "doc" ELSE WirePool[id]

\* The well-formed wire document in which the records listed in `order`
\* (those i with par[i] # NoId) hang under the record at position par[i] of
\* `order` (0: the Document record), siblings in the order of `order`.
wireParent(order, par, i) == IF par[i] = 0 THEN 0 ELSE order[par[i]]

wireKids(order, par, p) ==
  SelectSeq([i \in 1..Len(WirePool) |-> i],
            LAMBDA i : par[i] # NoId /\ wireParent(order, par, i) = p)

wireNext(order, kids, k) ==
  IF k < Len(kids) THEN order[kids[k + 1]] ELSE NoId

wireDoc(order, par) ==
  [nodes |-> {0} \cup {order[i] : i \in {j \in 1..Len(WirePool) : par[j] # NoId}},
   firstChild |->
     [id \in WireIds |->
        IF wireKids(order, par, id) = <<>> THEN NoId
        ELSE order[wireKids(order, par, id)[1]]],
   nextSibling |->
     [id \in WireIds |->
        IF \E i \in 1..Len(WirePool) :
             /\ order[i] = id /\ par[i] # NoId
             /\ \E k \in 1..Len(wireKids(order, par, wireParent(order, par, i))) :
                  /\ wireKids(order, par, wireParent(order, par, i))[k] = i
                  /\ k < Len(wireKids(order, par, wireParent(order, par, i)))
          THEN LET i == CHOOSE j \in 1..Len(WirePool) : order[j] = id
                   kids == wireKids(order, par, wireParent(order, par, i))
                   k == CHOOSE m \in 1..Len(kids) : kids[m] = i
               IN wireNext(order, kids, k)
          ELSE NoId]]

\* Every record hangs under the Document record or under an element record
\* that is itself part of the document and comes earlier in `order`.
WellFormedShape(order, par) ==
  \A i \in 1..Len(WirePool) :
    \/ par[i] \in {NoId, 0}
    \/ /\ par[i] \in 1..(i - 1)
       /\ par[par[i]] # NoId
       /\ nodeType(instance(order[par[i]])) = ELEMENT_NODE

WellFormedWires ==
  {wireDoc(order, par) :
     <<order, par>> \in
       {op \in Permutations(1..Len(WirePool))
                 \X [1..Len(WirePool) -> {NoId} \cup 0..(Len(WirePool) - 1)] :
          WellFormedShape(op[1], op[2])}}

\* attach that puts every node in front of its parent's first child.
attach_Prepend(d, parent, domNode, prev) ==
  IF parent = Null THEN Ok(d, domNode)
  ELSE IF d.firstChild[parent] # Null
    THEN insertBefore(d, parent, domNode, d.firstChild[parent])
  ELSE appendChild(d, parent, domNode)

\* buildSubtree attaching domNode: before `next` when it is a child of
\* parent, else before prev.nextSibling, else at the end.
attach(d, parent, domNode, prev) ==
  IF parent = Null THEN Ok(d, domNode)
  ELSE IF prev # Null /\ d.nextSibling[prev] # Null
    THEN insertBefore(d, parent, domNode, d.nextSibling[prev])
  ELSE appendChild(d, parent, domNode)

RECURSIVE buildSubtree(_, _, _, _, _)
RECURSIVE buildChildren(_, _, _, _, _)

\* The `while (childId != null)` loop of buildSubtree for domNode; r is the
\* outcome so far, previousChild the node built last.
buildChildren(r, w, childId, domNode, previousChild) ==
  IF r.threw THEN r
  ELSE IF childId = NoId \/ childId \notin w.nodes THEN Ok(r.dom, domNode)
  ELSE buildChildren(buildSubtree(r.dom, w, childId, domNode, previousChild),
                     w, w.nextSibling[childId], domNode, instance(childId))

buildSubtree(d, w, id, parent, prev) ==
  buildChildren(attach(d, parent, instance(id), prev), w, w.firstChild[id],
                instance(id), Null)

\* buildDocumentTree: the record with the Document tag is the root.
buildDocumentTree(d, w) ==
  IF 0 \notin w.nodes THEN Throw(d) ELSE buildSubtree(d, w, 0, Null, Null)

InitBuild ==
  /\ dom = InitDom
  /\ last = NoCall
  /\ nops = 0
  /\ coll = NoColl
  /\ lastRead = NoRead
  /\ cache = NoCache
  /\ wire \in WellFormedWires
  /\ attrs = NoAttrs
  /\ objs = NoObjs
  /\ tok = NoTok
  /\ sel = NoSel
  /\ ds = NoDs

Build ==
  /\ last.op = "none"
  /\ dom' = buildDocumentTree(dom, wire).dom
  /\ last' = [NoCall EXCEPT !.op = "buildDocumentTree",
                            !.threw = buildDocumentTree(dom, wire).threw,
                            !.ret = buildDocumentTree(dom, wire).ret]
  /\ UNCHANGED <<nops, coll, lastRead, cache, wire, attrs, objs, tok, ds, sel>>

NextBuild == Build

SpecBuild == InitBuild /\ [][NextBuild]_vars

\* ------------------------------------------------------------------------
\* Attributes: Attr, NamedNodeMap, Element's attribute methods
\* ------------------------------------------------------------------------

\* Attr objects not created yet; `new Attr` takes one of them.
FreeAttrs(A) == {a \in AttrPool : A.name[a] = Null}
freshAttr(A) ==
  IF A.name["a1"] = Null THEN "a1"
  ELSE IF A.name["a2"] = Null THEN "a2" ELSE "a3"

\* `new Attr(name, value, namespaceURI, ownerElement)` as object `a`
newAttr(A, a, name, value, ownerElement) ==
  [A EXCEPT !.name[a] = name, !.value[a] = value,
            !.ownerElement[a] = ownerElement]

\* NamedNodeMap.namedItem / Element.getAttributeNode: the first Attr of the
\* map with that name, from index k on.
RECURSIVE namedItemFrom(_, _, _, _)
namedItemFrom(A, L, name, k) ==
  IF k >= Len(L) THEN Null
  ELSE IF A.name[at(L, k)] = name THEN at(L, k)
  ELSE namedItemFrom(A, L, name, k + 1)

\* String.prototype.toLowerCase on the attribute names in use
nameToLowerCase(name) == IF name = "CLASS" THEN "class" ELSE name

\* NamedNodeMap.namedItem compares the lower-cased names.
RECURSIVE namedItemLowerFrom(_, _, _, _)
namedItemLowerFrom(A, L, name, k) ==
  IF k >= Len(L) THEN Null
  ELSE IF nameToLowerCase(A.name[at(L, k)]) = nameToLowerCase(name)
    THEN at(L, k)
  ELSE namedItemLowerFrom(A, L, name, k + 1)

namedItem(A, el, name) == namedItemLowerFrom(A, A.list[el], name, 0)
getAttributeNode(A, el, name) == namedItemFrom(A, A.list[el], name, 0)

\* LinkedList.splice(index, 1, ...items) / LinkedList.append on a storage
linkedSplice(L, index, items) ==
  SubSeq(L, 1, index) \o items \o SubSeq(L, index + 2, Len(L))

\* NamedNodeMap.setNamedItem: attr takes the place of the Attr of the same
\* name, or is appended.
setNamedItemOver(A, el, attr, existing) ==
  IF existing # Null
    THEN [A EXCEPT !.list[el] = linkedSplice(@, indexOf(@, existing), <<attr>>)]
    ELSE [A EXCEPT !.list[el] = Append(@, attr)]

setNamedItem(A, el, attr) ==
  setNamedItemOver(A, el, attr, namedItem(A, el, A.name[attr]))

\* Attr.cloneNode as object c: same name and value, and the source's
\* ownerElement.
attrCloneNode(A, attr, c) ==
  newAttr(A, c, A.name[attr], A.value[attr], A.ownerElement[attr])

\* Element.setAttributeNode once the candidate is chosen.
setCandidate(A, el, candidate) ==
  setNamedItem([A EXCEPT !.ownerElement[candidate] = el], el, candidate)

\* Element.setAttributeNode: an Attr owned by another element is cloned
\* (as object c) and the clone is stored.
setAttributeNode(A, el, attr, c) ==
  IF A.ownerElement[attr] # Null /\ A.ownerElement[attr] # el
    THEN setCandidate(attrCloneNode(A, attr, c), el, c)
    ELSE setCandidate(A, el, attr)

\* Element.setAttribute: `new Attr(name, value, ns, this)` as object a, then
\* setAttributeNode.
setAttribute(A, el, name, value, a) ==
  setCandidate(newAttr(A, a, name, value, el), el, a)

\* NamedNodeMap.removeNamedItem of an existing name
removeNamedItem(A, el, existing) ==
  [A EXCEPT !.list[el] = linkedSplice(@, indexOf(@, existing), <<>>)]

\* Element.removeAttributeNode of an Attr that is in the map
removeAttributeNode(A, el, attr) ==
  [removeNamedItem(A, el, namedItem(A, el, A.name[attr]))
     EXCEPT !.ownerElement[attr] = Null]

\* An attribute operation that leaves the attribute state as A.
AttrOp(A) ==
  /\ attrs' = A
  /\ UNCHANGED <<dom, last, nops, coll, lastRead, cache, wire, objs, tok, ds, sel>>

SetAttribute ==
  \E el \in AttrElements, name \in AttrNames, value \in AttrValues :
    /\ FreeAttrs(attrs) # {}
    /\ AttrOp(setAttribute(attrs, el, name, value, freshAttr(attrs)))

SetAttributeNode ==
  \E el \in AttrElements, attr \in AttrPool \ FreeAttrs(attrs) :
    /\ (attrs.ownerElement[attr] \notin {Null, el}) => FreeAttrs(attrs) # {}
    /\ AttrOp(setAttributeNode(attrs, el, attr,
                               IF FreeAttrs(attrs) # {} THEN freshAttr(attrs)
                                                        ELSE attr))

\* removeAttributeNode throws when attr is not in the map (no change).
RemoveAttributeNode ==
  \E el \in AttrElements, attr \in AttrPool \ FreeAttrs(attrs) :
    /\ indexOf(attrs.list[el], attr) >= 0
    /\ AttrOp(removeAttributeNode(attrs, el, attr))

\* removeAttribute throws when no Attr has that name (no change).
RemoveAttribute ==
  \E el \in AttrElements, name \in AttrNames :
    /\ getAttributeNode(attrs, el, name) # Null
    /\ AttrOp(removeAttributeNode(attrs, el, getAttributeNode(attrs, el, name)))

AttrCloneNode ==
  \E attr \in AttrPool \ FreeAttrs(attrs) :
    /\ FreeAttrs(attrs) # {}
    /\ AttrOp(attrCloneNode(attrs, attr, freshAttr(attrs)))

NextAttrs ==
  \/ SetAttribute \/ SetAttributeNode
  \/ RemoveAttributeNode \/ RemoveAttribute
  \/ AttrCloneNode

SpecAttrs == Init /\ [][NextAttrs]_vars

\* ------------------------------------------------------------------------
\* Tree mutations whose node to insert may be an Attr
\* ------------------------------------------------------------------------

AttrChildPool == {"e1", "e2"} \cup Texts \cup Attrs

AttrChildInsertBefore == InsertBeforeOf(AttrChildPool, AttrChildPool)
AttrChildAppendChild == AppendChildOf(AttrChildPool, AttrChildPool)
AttrChildReplaceChild == ReplaceChildOf(AttrChildPool, AttrChildPool)
AttrChildRemoveChild == RemoveChildOf(AttrChildPool, AttrChildPool)

NextAttrChild ==
  \/ AttrChildInsertBefore \/ AttrChildAppendChild
  \/ AttrChildReplaceChild \/ AttrChildRemoveChild
  \/ Continue

SpecAttrChild == Init /\ [][NextAttrChild]_vars

\* ------------------------------------------------------------------------
\* Node objects by creation order: cloneNode and isEqualNode
\* ------------------------------------------------------------------------
\* A heap H is the sequence of the node objects constructed so far; the
\* object at position i is the one whose id is `node-i`.  Each object
\* records nodeType, nodeName, tagName, nodeValue, its attribute
\* name/value pairs in order, its child list and its parent (0 for none).

NoNode == 0

\* String.prototype.toUpperCase on the names in use
toUpperCase(str) == IF str = "a" THEN "A" ELSE str

\* `new Element(tagName, attrs)`
newElement(tag, attrList) ==
  [nodeType |-> ELEMENT_NODE, nodeName |-> tag, tagName |-> toUpperCase(tag),
   nodeValue |-> Null, attributes |-> attrList,
   childNodes |-> <<>>, parentNode |-> NoNode]

\* `new Text(data)`
newText(data) ==
  [nodeType |-> TEXT_NODE, nodeName |-> "#text", tagName |-> Null,
   nodeValue |-> data, attributes |-> <<>>,
   childNodes |-> <<>>, parentNode |-> NoNode]

\* `new DocumentFragment()`
newDocumentFragment ==
  [nodeType |-> DOCUMENT_FRAGMENT_NODE, nodeName |-> "#document-fragment",
   tagName |-> Null, nodeValue |-> Null, attributes |-> <<>>,
   childNodes |-> <<>>, parentNode |-> NoNode]

\* `.data` of a Text: nodeValue ?? ""
data(H, n) == IF H[n].nodeValue = Null THEN "" ELSE H[n].nodeValue

\* cloneShallow of each kind: the heap with the new object at its end.
cloneShallow(H, n) ==
  Append(H,
    IF H[n].nodeType = ELEMENT_NODE
      THEN newElement(H[n].tagName, H[n].attributes)
    ELSE IF H[n].nodeType = TEXT_NODE THEN newText(data(H, n))
    ELSE newDocumentFragment)

\* `.children` of an Element or DocumentFragment: its element children
children(H, n) ==
  SelectSeq(H[n].childNodes, LAMBDA c : H[c].nodeType = ELEMENT_NODE)

\* `clone.appendChild(childClone)` for the detached childClone r.ret
appendClone(r, clone) ==
  [heap |-> [r.heap EXCEPT ![clone].childNodes = Append(@, r.ret),
                           ![r.ret].parentNode = clone],
   ret |-> clone]

\* cloneNode(deep) of Element and DocumentFragment (over `.children`) and of
\* Text (no children cloned): the heap after the call and the clone.
RECURSIVE cloneNode(_, _, _)
RECURSIVE cloneChildren(_, _, _, _)
cloneChildren(r, clone, kids, i) ==
  IF i > Len(kids) THEN [heap |-> r.heap, ret |-> clone]
  ELSE cloneChildren(appendClone(cloneNode(r.heap, kids[i], TRUE), clone),
                     clone, kids, i + 1)

cloneNode(H, n, deep) ==
  IF deep /\ H[n].nodeType # TEXT_NODE
    THEN cloneChildren([heap |-> cloneShallow(H, n), ret |-> Len(H) + 1],
                       Len(H) + 1, children(H, n), 1)
    ELSE [heap |-> cloneShallow(H, n), ret |-> Len(H) + 1]

\* isEqualNode that does not compare nodeName.
RECURSIVE isEqualNode_AnyName(_, _, _)
isEqualNode_AnyName(H, this, otherNode) ==
  IF otherNode = NoNode THEN FALSE
  ELSE IF this = otherNode THEN TRUE
  ELSE IF H[this].nodeType # H[otherNode].nodeType THEN FALSE
  ELSE IF H[this].nodeValue # H[otherNode].nodeValue THEN FALSE
  ELSE IF H[this].attributes # H[otherNode].attributes THEN FALSE
  ELSE IF Len(H[this].childNodes) # Len(H[otherNode].childNodes) THEN FALSE
  ELSE \A i \in 1..Len(H[this].childNodes) :
         isEqualNode_AnyName(H, H[this].childNodes[i], H[otherNode].childNodes[i])

\* Node.isEqualNode; the attribute loop compares name and value of the
\* Attrs at equal positions after comparing the lengths.
RECURSIVE isEqualNode(_, _, _)
isEqualNode(H, this, otherNode) ==
  IF otherNode = NoNode THEN FALSE
  ELSE IF this = otherNode THEN TRUE
  ELSE IF H[this].nodeType # H[otherNode].nodeType THEN FALSE
  ELSE IF H[this].nodeName # H[otherNode].nodeName THEN FALSE
  ELSE IF H[this].nodeValue # H[otherNode].nodeValue THEN FALSE
  ELSE IF Len(H[this].attributes) # Len(H[otherNode].attributes) THEN FALSE
  ELSE IF \E i \in 1..Len(H[this].attributes) :
            H[this].attributes[i] # H[otherNode].attributes[i] THEN FALSE
  ELSE IF Len(H[this].childNodes) # Len(H[otherNode].childNodes) THEN FALSE
  ELSE \A i \in 1..Len(H[this].childNodes) :
         isEqualNode(H, H[this].childNodes[i], H[otherNode].childNodes[i])

\* The trees cloneNode and isEqualNode are applied to: three objects, the
\* first a parent of the second, the third a child of either.
ElementNames == {"a", "A"}
AttrLists == {<<>>, << <<"class", "v1">> >>}
TextData == {"x", "y"}

SourceElements == {newElement(t, l) : t \in ElementNames, l \in AttrLists}
SourceParents == SourceElements \cup {newDocumentFragment}
SourceChildren == SourceElements \cup {newText(v) : v \in TextData}

\* The heap after `n1.appendChild(n2); p3.appendChild(n3)`.
linked(n1, n2, n3, p3) ==
  << [n1 EXCEPT !.childNodes = IF p3 = 1 THEN <<2, 3>> ELSE <<2>>],
     [n2 EXCEPT !.parentNode = 1,
                !.childNodes = IF p3 = 2 THEN <<3>> ELSE <<>>],
     [n3 EXCEPT !.parentNode = p3] >>

SourceHeaps ==
  {linked(n1, n2, n3, p3) :
     n1 \in SourceParents, n2 \in SourceChildren, n3 \in SourceChildren,
     p3 \in {1}}
  \cup
  {linked(n1, n2, n3, p3) :
     n1 \in SourceParents, n2 \in SourceElements, n3 \in SourceChildren,
     p3 \in {2}}

\* Number of cloneNode calls in one run.
MaxClones == 2

\* The state in which the node objects constructed so far are one of Heaps.
InitHeaps(Heaps) ==
  /\ dom = InitDom
  /\ last = NoCall
  /\ nops = 0
  /\ coll = NoColl
  /\ lastRead = NoRead
  /\ cache = NoCache
  /\ wire = NoWire
  /\ attrs = NoAttrs
  /\ objs \in {[NoObjs EXCEPT !.heap = H] : H \in Heaps}
  /\ tok = NoTok
  /\ sel = NoSel
  /\ ds = NoDs

InitObjs == InitHeaps(SourceHeaps)

\* A call on node objects that leaves the objects as O.
ObjOp(O) ==
  /\ objs' = O
  /\ UNCHANGED <<dom, last, nops, coll, lastRead, cache, wire, attrs, tok, ds, sel>>

\* `this.cloneNode(deep)` whose outcome is r; the call is kept with the
\* heap it started from.
Cloned(this, deep, r) ==
  ObjOp([objs EXCEPT !.heap = r.heap,
                     !.calls = Append(@, [this |-> this, deep |-> deep,
                                          ret |-> r.ret, pre |-> objs.heap])])

CloneNode ==
  \E this \in 1..Len(objs.heap), deep \in BOOLEAN :
    /\ Len(objs.calls) < MaxClones
    /\ Cloned(this, deep, cloneNode(objs.heap, this, deep))

NextClone == CloneNode

SpecClone == InitObjs /\ [][NextClone]_vars

\* `this.isEqualNode(otherNode)`, otherNode possibly null
IsEqualNode ==
  \E this \in 1..Len(objs.heap), otherNode \in 0..Len(objs.heap) :
    ObjOp([objs EXCEPT !.eq = [this |-> this, other |-> otherNode,
                               ret |-> isEqualNode(objs.heap, this, otherNode)]])

NextEqual == IsEqualNode

\* The trees isEqualNode compares: the source trees, and each with a deep
\* clone of its first object beside it.
EqualHeaps ==
  SourceHeaps \cup {cloneNode(H, 1, TRUE).heap : H \in SourceHeaps}

InitEqual == InitHeaps(EqualHeaps)

SpecEqual == InitEqual /\ [][NextEqual]_vars

\* ------------------------------------------------------------------------
\* DOMTokenList over one attribute of one element
\* ------------------------------------------------------------------------
\* T is the element's attribute (has, value) together with the private
\* state of the token list obtained from it (created, tokens).

Chars == {"a", "b", " "}

\* Longest attribute value written with setAttribute.
MaxLen == 3

Strings == UNION {[1..n -> Chars] : n \in 0..MaxLen}

\* Tokens passed to add, remove, toggle, replace and contains.
Tokens == {<<"a">>, <<"b">>}

RECURSIVE trimStart(_)
trimStart(str) ==
  IF str # <<>> /\ Head(str) = " " THEN trimStart(Tail(str)) ELSE str

RECURSIVE trimEnd(_)
trimEnd(str) ==
  IF str # <<>> /\ str[Len(str)] = " "
    THEN trimEnd(SubSeq(str, 1, Len(str) - 1)) ELSE str

\* String.prototype.trim
StringPrototypeTrim(str) == trimEnd(trimStart(str))

\* String.prototype.split on /\s+/: cur is the piece being read, sep tells
\* that the character before was whitespace.
RECURSIVE splitFrom(_, _, _)
splitFrom(str, cur, sep) ==
  IF str = <<>> THEN <<cur>>
  ELSE IF Head(str) = " "
    THEN IF sep THEN splitFrom(Tail(str), cur, TRUE)
         ELSE <<cur>> \o splitFrom(Tail(str), <<>>, TRUE)
  ELSE splitFrom(Tail(str), Append(cur, Head(str)), FALSE)

StringPrototypeSplit(str) == splitFrom(str, <<>>, FALSE)

\* Array.prototype.join(" ")
RECURSIVE join(_)
join(list) ==
  IF list = <<>> THEN <<>>
  ELSE IF Len(list) = 1 THEN list[1]
  ELSE list[1] \o <<" ">> \o join(Tail(list))

\* Array.prototype.indexOf on an array of strings, 0-based
RECURSIVE tokenIndexFrom(_, _, _)
tokenIndexFrom(list, t, k) ==
  IF k >= Len(list) THEN -1
  ELSE IF list[k + 1] = t THEN k
  ELSE tokenIndexFrom(list, t, k + 1)

tokenIndexOf(list, t) == tokenIndexFrom(list, t, 0)

\* `.filter((t, i, a) => indexOf(a, t) === i)` from position i on
RECURSIVE firstOccurrencesFrom(_, _)
firstOccurrencesFrom(list, i) ==
  IF i >= Len(list) THEN <<>>
  ELSE (IF tokenIndexOf(list, list[i + 1]) = i THEN <<list[i + 1]>> ELSE <<>>)
       \o firstOccurrencesFrom(list, i + 1)

firstOccurrences(list) == firstOccurrencesFrom(list, 0)

\* Element.getAttribute(name) ?? ""
getAttributeOrEmpty(T) == IF T.has THEN T.value ELSE <<>>

\* Element.setAttribute, as far as the attribute's value goes
setAttributeValue(T, value) == [T EXCEPT !.has = TRUE, !.value = value]

\* DOMTokenList.#updateTokens()
updateTokens(T) ==
  [T EXCEPT !.tokens =
     SelectSeq(StringPrototypeSplit(StringPrototypeTrim(getAttributeOrEmpty(T))),
               LAMBDA t : Len(t) > 0)]

\* DOMTokenList.#updateAttribute(): setAttribute(name, this.value)
updateAttribute(T) == setAttributeValue(T, join(T.tokens))

\* add / remove / replace after their #updateTokens(), whose outcome is U
addTo(U, token) ==
  updateAttribute([U EXCEPT !.tokens = firstOccurrences(Append(@, token))])

removeFrom(U, token) ==
  updateAttribute([U EXCEPT !.tokens = SelectSeq(@, LAMBDA t : t # token)])

replaceAt(U, index, newToken) ==
  IF index = -1 THEN U
  ELSE updateAttribute(
         [U EXCEPT !.tokens = firstOccurrences([@ EXCEPT ![index + 1] = newToken])])

tokenListAdd(T, token) == addTo(updateTokens(T), token)
tokenListRemove(T, token) == removeFrom(updateTokens(T), token)
tokenListReplace(T, oldToken, newToken) ==
  replaceAt(updateTokens(T), tokenIndexOf(updateTokens(T).tokens, oldToken),
            newToken)

\* DOMTokenList.contains
contains(T, token) == tokenIndexOf(updateTokens(T).tokens, token) # -1

\* DOMTokenList.toggle without `force`
tokenListToggle(T, token) ==
  IF contains(T, token) THEN tokenListRemove(T, token)
                        ELSE tokenListAdd(T, token)

\* DOMTokenList.item: the token in a one-element sequence, <<>> for null
item(U, index) ==
  IF index < Len(U.tokens) THEN <<U.tokens[index + 1]>> ELSE <<>>

\* A step on the element or its token list that leaves them as T and is
\* kept as the call `name` with its result.
TokOp(T, name, added, removed, ret) ==
  /\ tok' = [T EXCEPT !.op = [name |-> name, added |-> added,
                              removed |-> removed, ret |-> ret]]
  /\ UNCHANGED <<dom, last, nops, coll, lastRead, cache, wire, attrs, objs, ds, sel>>

\* `el.setAttribute("class", value)`
SetTokenAttribute ==
  \E value \in Strings :
    TokOp(setAttributeValue(tok, value), "setAttribute", <<>>, <<>>, <<>>)

\* `el.classList`: the constructor runs #updateTokens().
CreateTokenList ==
  /\ ~tok.created
  /\ TokOp(updateTokens([tok EXCEPT !.created = TRUE]), "classList",
           <<>>, <<>>, <<>>)

ReadTokenLength ==
  /\ tok.created
  /\ TokOp(tok, "length", <<>>, <<>>, Len(tok.tokens))

ReadTokenValue ==
  /\ tok.created
  /\ TokOp(tok, "value", <<>>, <<>>, join(tok.tokens))

ReadTokenItem ==
  \E index \in 0..2 :
    /\ tok.created
    /\ TokOp(updateTokens(tok), "item", <<index>>, <<>>,
             item(updateTokens(tok), index))

ReadTokenContains ==
  \E token \in Tokens :
    /\ tok.created
    /\ TokOp(updateTokens(tok), "contains", <<token>>, <<>>, contains(tok, token))

ReadTokenIterate ==
  /\ tok.created
  /\ TokOp(updateTokens(tok), "iterate", <<>>, <<>>, updateTokens(tok).tokens)

TokenAdd ==
  \E token \in Tokens :
    /\ tok.created
    /\ TokOp(tokenListAdd(tok, token), "add", <<token>>, <<>>, <<>>)

TokenRemove ==
  \E token \in Tokens :
    /\ tok.created
    /\ TokOp(tokenListRemove(tok, token), "remove", <<>>, <<token>>, <<>>)

TokenToggle ==
  \E token \in Tokens :
    /\ tok.created
    /\ TokOp(tokenListToggle(tok, token), "toggle",
             IF contains(tok, token) THEN <<>> ELSE <<token>>,
             IF contains(tok, token) THEN <<token>> ELSE <<>>,
             ~contains(tok, token))

\* A replace that returns false (oldToken absent) changes nothing but the
\* cached tokens.
TokenReplace ==
  \E oldToken \in Tokens, newToken \in Tokens :
    /\ tok.created
    /\ TokOp(tokenListReplace(tok, oldToken, newToken),
             IF contains(tok, oldToken) THEN "replace" ELSE "replace-absent",
             IF contains(tok, oldToken) THEN <<newToken>> ELSE <<>>,
             IF contains(tok, oldToken) /\ oldToken # newToken
               THEN <<oldToken>> ELSE <<>>,
             contains(tok, oldToken))

NextTokens ==
  \/ SetTokenAttribute \/ CreateTokenList
  \/ ReadTokenLength \/ ReadTokenValue \/ ReadTokenItem
  \/ ReadTokenContains \/ ReadTokenIterate
  \/ TokenAdd \/ TokenRemove \/ TokenToggle \/ TokenReplace

SpecTokens == Init /\ [][NextTokens]_vars

\* ------------------------------------------------------------------------
\* DOMStringMap: the dataset of one element
\* ------------------------------------------------------------------------
\* Names and keys are sequences of characters.

DataPrefix == <<"d", "a", "t", "a", "-">>

\* Keys read, written and deleted through a dataset.
DataKeys == {<<"x">>, <<"x", "X">>}

isUpperCase(c) == c \in {"X"}
isLowerCase(c) == c \in {"x", "d", "a", "t", "i"}
toLowerCaseChar(c) == IF c = "X" THEN "x" ELSE IF c = "A" THEN "a" ELSE c
toUpperCaseChar(c) == IF c = "x" THEN "X" ELSE c

\* key.replace(/((?<=^|[^A-Z])[A-Z])/g, (_, c) => `-${c}`) from position i
RECURSIVE dashedFrom(_, _)
dashedFrom(key, i) ==
  IF i > Len(key) THEN <<>>
  ELSE (IF isUpperCase(key[i]) /\ (i = 1 \/ ~isUpperCase(key[i - 1]))
          THEN <<"-", key[i]>> ELSE <<key[i]>>)
       \o dashedFrom(key, i + 1)

\* DOMStringMapInternals.toAttrName
toAttrName(key) ==
  DataPrefix \o [i \in 1..Len(dashedFrom(key, 1)) |->
                   toLowerCaseChar(dashedFrom(key, 1)[i])]

\* rhs.replace(/-([a-z])/g, (_, c) => c.toUpperCase()) from position i
RECURSIVE camelFrom(_, _)
camelFrom(rhs, i) ==
  IF i > Len(rhs) THEN <<>>
  ELSE IF rhs[i] = "-" /\ i < Len(rhs) /\ isLowerCase(rhs[i + 1])
    THEN <<toUpperCaseChar(rhs[i + 1])>> \o camelFrom(rhs, i + 2)
  ELSE <<rhs[i]>> \o camelFrom(rhs, i + 1)

\* attr.name.startsWith("data-")
startsWithData(name) ==
  Len(name) >= Len(DataPrefix) /\ SubSeq(name, 1, Len(DataPrefix)) = DataPrefix

\* The key the DOMStringMap constructor files an attribute under.
keyOfName(name) == camelFrom(SubSeq(name, Len(DataPrefix) + 1, Len(name)), 1)

\* Attribute names of the element, and the keys a dataset can hold.
DsAttrNames == {toAttrName(k) : k \in DataKeys} \cup {<<"i", "d">>}
DsKeys == DataKeys \cup {keyOfName(n) : n \in {m \in DsAttrNames : startsWithData(m)}}
DsValues == {"1", "2"}

NoAttributes == [n \in DsAttrNames |-> Null]
NoData == [k \in DsKeys |-> Null]

\* The DOMStringMap constructor's loop over ownerElement.attributes
dataOfAttributes(attr) ==
  [k \in DsKeys |->
     IF \E n \in DsAttrNames : attr[n] # Null /\ startsWithData(n) /\ keyOfName(n) = k
       THEN attr[CHOOSE n \in DsAttrNames :
                   attr[n] # Null /\ startsWithData(n) /\ keyOfName(n) = k]
       ELSE Null]

\* `new DOMStringMap(el)` / `new DOMStringMap()`
newDOMStringMap(D, node) ==
  [D EXCEPT !.created = TRUE, !.node = node,
            !.data = IF node THEN dataOfAttributes(D.attr) ELSE NoData]

\* DOMStringMapInternals.set: the attribute is written only when the
\* element has none of that name.
dsSet(D, k, v) ==
  [D EXCEPT !.data[k] = v,
            !.attr[toAttrName(k)] = IF D.node /\ @ = Null THEN v ELSE @]

\* DOMStringMapInternals.delete; removeNamedItem throws when the element
\* has no attribute of that name.
dsDeleteThrows(D, k) ==
  D.data[k] # Null /\ D.node /\ D.attr[toAttrName(k)] = Null

dsDelete(D, k) ==
  IF D.data[k] = Null THEN D
  ELSE [D EXCEPT !.data[k] = Null,
                 !.attr[toAttrName(k)] = IF D.node THEN Null ELSE @]

\* A step on the element or its dataset that leaves them as D.
DsOp(D, name, key, value, ret, threw) ==
  /\ ds' = [D EXCEPT !.op = [name |-> name, key |-> key, value |-> value,
                             ret |-> ret, threw |-> threw, pre |-> ds.attr]]
  /\ UNCHANGED <<dom, last, nops, coll, lastRead, cache, wire, attrs, objs, tok, sel>>

\* The element is constructed.
DsNewElement ==
  /\ ds.attr = <<>>
  /\ DsOp([ds EXCEPT !.attr = NoAttributes, !.data = NoData],
          "Element", <<>>, Null, Null, FALSE)

\* `el.setAttribute(name, value)`
DsSetAttribute ==
  \E n \in DsAttrNames, v \in DsValues :
    /\ ds.attr # <<>>
    /\ DsOp([ds EXCEPT !.attr[n] = v], "setAttribute", n, v, Null, FALSE)

\* `el.removeAttribute(name)`; throws when there is none.
DsRemoveAttribute ==
  \E n \in DsAttrNames :
    /\ ds.attr # <<>>
    /\ DsOp([ds EXCEPT !.attr[n] = Null], "removeAttribute", n, Null, Null,
            ds.attr[n] = Null)

\* `el.dataset`
DsDataset ==
  /\ ds.attr # <<>>
  /\ DsOp(newDOMStringMap(ds, TRUE), "dataset", <<>>, Null, Null, FALSE)

\* `new DOMStringMap()`
DsDetached ==
  /\ ds.attr # <<>>
  /\ ~ds.created
  /\ DsOp(newDOMStringMap(ds, FALSE), "DOMStringMap", <<>>, Null, Null, FALSE)

\* `view[k]`
DsRead ==
  \E k \in DataKeys :
    /\ ds.created
    /\ DsOp(ds, "read", k, Null, ds.data[k], FALSE)

\* `view[k] = v`
DsWrite ==
  \E k \in DataKeys, v \in DsValues :
    /\ ds.created
    /\ DsOp(dsSet(ds, k, v), "write", k, v, Null, FALSE)

\* `delete view[k]`
DsDelete ==
  \E k \in DataKeys :
    /\ ds.created
    /\ DsOp(dsDelete(ds, k), "delete", k, Null, Null, dsDeleteThrows(ds, k))

NextDataset ==
  \/ DsNewElement \/ DsSetAttribute \/ DsRemoveAttribute
  \/ DsDataset \/ DsDetached
  \/ DsRead \/ DsWrite \/ DsDelete

SpecDataset == Init /\ [][NextDataset]_vars

\* ------------------------------------------------------------------------
\* Selector queries (select.ts)
\* ------------------------------------------------------------------------

\* What `array[0]` of an empty array evaluates to.
Undefined == "undefined"

\* Node.nodeName of the elements of the universe, as a string of characters
\* (the name the element was created with; tagName is its upper-case form).
nodeName(n) == IF n = "e3" THEN <<"h", "e", "a", "d">> ELSE <<"a">>

\* `node.attributes.getNamedItem("class")` and its value.
hasClass(d, n) == d.className[n] # <<>>
classValue(d, n) == d.className[n][1]

\* One simple selector of the parsed selector: a type, class or universal
\* selector, or a pseudo-class with its argument.
Token(type, name, pseudo, argument) ==
  [type |-> type, name |-> name, pseudo |-> pseudo, argument |-> argument]

TypeTokens == {Token("type", nm, "", "") : nm \in {<<"a">>, <<"h", "e", "a", "d">>}}
ClassTokens == {Token("class", <<"b">>, "", "")}
UniversalTokens == {Token("universal", <<>>, "", "")}
PseudoTokens ==
  {Token("pseudo-class", <<>>, p, "") :
     p \in {"first-child", "last-child", "only-child"}}
  \cup {Token("pseudo-class", <<>>, "nth-child", a) :
          a \in {"1", "2", "odd", "even"}}

\* A parsed selector: a compound selector (its simple selectors in `right`),
\* a complex selector `left combinator right`, or a string the parser
\* rejects.  A single simple selector is the compound of one.
Compound(list) ==
  [type |-> "compound", left |-> <<>>, right |-> list, combinator |-> ""]
Complex(left, combinator, right) ==
  [type |-> "complex", left |-> left, right |-> right,
   combinator |-> combinator]
Invalid == [type |-> "invalid", left |-> <<>>, right |-> <<>>, combinator |-> ""]

Combinators == {" ", ">", "~", "+"}

CompoundSelectors ==
  {Compound(<<t>>) :
     t \in TypeTokens \cup ClassTokens \cup UniversalTokens \cup PseudoTokens}
  \cup {Compound(<<Token("type", <<"a">>, "", ""),
                    Token("pseudo-class", <<>>, "nth-child", "2")>>)}
ComplexSelectors ==
  {Complex(<<l>>, c, <<Token("type", <<"a">>, "", "")>>) :
     l \in TypeTokens, c \in Combinators}
Selectors == CompoundSelectors \cup ComplexSelectors \cup {Invalid}

\* `[...parent?.childNodes ?? []].filter(n => n.nodeType === ELEMENT_NODE)`
elementChildNodes(d, parent) ==
  IF parent = Null THEN <<>>
  ELSE SelectSeq(d.childNodes[parent], LAMBDA n : nodeType(n) = ELEMENT_NODE)

nthChildIndex(d, node, parent) == indexOf(elementChildNodes(d, parent), node)

firstChildOf(L, node) == L # <<>> /\ L[1] = node
lastChildOf(L, node) == L # <<>> /\ L[Len(L)] = node

firstChild(d, node, parent) == firstChildOf(elementChildNodes(d, parent), node)
lastChild(d, node, parent) == lastChildOf(elementChildNodes(d, parent), node)
onlyChild(d, node, parent) == Len(elementChildNodes(d, parent)) = 1

\* Number(argument) for the numerals of the universe.
NumberOf(argument) == IF argument = "1" THEN 1 ELSE 2

\* The nth-child test on target = nthChildIndex + 1.
nthChildTarget(argument, target) ==
  IF argument = "odd" THEN target % 2 = 1
  ELSE IF argument = "even" THEN target % 2 = 0
  ELSE target = NumberOf(argument)

pseudoClass(d, s, node, parent) ==
  IF s.pseudo = "first-child" THEN firstChild(d, node, parent)
  ELSE IF s.pseudo = "last-child" THEN lastChild(d, node, parent)
  ELSE IF s.pseudo = "only-child" THEN onlyChild(d, node, parent)
  ELSE nthChildTarget(s.argument, nthChildIndex(d, node, parent) + 1)

\* createMatch: the test one simple selector makes on (node, parent).
createMatch(d, s, node, parent) ==
  IF s.type = "type" THEN nodeName(node) = s.name
  ELSE IF s.type = "class"
    THEN hasClass(d, node)
         /\ s.name \in Range(StringPrototypeSplit(classValue(d, node)))
  ELSE IF s.type = "universal" THEN TRUE
  ELSE pseudoClass(d, s, node, parent)

\* selectorToMatch of a compound selector: every simple selector matches.
compoundMatch(d, list, node, parent) ==
  \A i \in 1..Len(list) : createMatch(d, list[i], node, parent)

\* The complex matcher's update of its set of recorded left matches;
\* matchLeft is called with the node alone.
leftMatchesAfter(d, c, leftMatches, node, parent) ==
  IF compoundMatch(d, c.left, node, Null) THEN leftMatches \cup {node}
  ELSE IF parent # Null /\ parent \in leftMatches /\ c.combinator = " "
    THEN leftMatches \cup {node}
  ELSE leftMatches

\* `[...parent.childNodes].slice(0, i)`
sliceTo(L, i) == SubSeq(L, 1, IF i < Len(L) THEN i ELSE Len(L))

prevSiblings(d, parent, i) ==
  SelectSeq(sliceTo(d.childNodes[parent], i),
            LAMBDA n : nodeType(n) = ELEMENT_NODE)

lastRecorded(L, leftMatches) == L # <<>> /\ L[Len(L)] \in leftMatches

\* The complex matcher's verdict once leftMatches has been updated;
\* matchRight is called with the node alone.
combinatorMatch(d, c, leftMatches, node, parent, i) ==
  IF ~compoundMatch(d, c.right, node, Null) THEN FALSE
  ELSE IF parent = Null THEN FALSE
  ELSE IF c.combinator \in {" ", ">"} THEN parent \in leftMatches
  ELSE IF c.combinator = "~"
    THEN \E sibling \in Range(sliceTo(d.childNodes[parent], i)) :
           sibling \in leftMatches
  ELSE lastRecorded(prevSiblings(d, parent, i), leftMatches)

\* The set of left matches after the matcher of selector s ran on a node.
recorded(d, s, leftMatches, node, parent) ==
  IF s.type = "complex" THEN leftMatchesAfter(d, s, leftMatches, node, parent)
  ELSE leftMatches

\* selectorToMatch(s)(node, parent, i), given the matcher's recorded set.
selectorToMatch(d, s, leftMatches, node, parent, i) ==
  IF s.type = "complex"
    THEN combinatorMatch(d, s,
           leftMatchesAfter(d, s, leftMatches, node, parent), node, parent, i)
  ELSE compoundMatch(d, s.right, node, parent)

\* selectorToMatch raises before any node is visited: the parser rejects the
\* string, or returns nothing and createMatch reads `type` of undefined.
selectorToMatchThrows(s) == s.type = "invalid"

\* walkSync: the callback's arguments (child, parent, index) in call order.
\* `parent ?? node` is taken at the root and handed down unchanged.
RECURSIVE walkFrom(_, _, _, _)
walkFrom(d, node, parent, i) ==
  IF i > Len(d.childNodes[node]) THEN <<>>
  ELSE <<[n |-> d.childNodes[node][i], parent |-> parent, index |-> i - 1]>>
       \o walkFrom(d, d.childNodes[node][i], parent, 1)
       \o walkFrom(d, node, parent, i + 1)

walkSync(d, node, parent) ==
  walkFrom(d, node, IF parent = Null THEN node ELSE parent, 1)

\* select's callback run over the visits V from the k-th on: the nodes
\* pushed so far and, in single mode, the node thrown at the first match.
RECURSIVE selectFrom(_, _, _, _, _, _, _)
selectFrom(d, s, V, k, leftMatches, nodes, single) ==
  IF k > Len(V) THEN [nodes |-> nodes, thrown |-> Null]
  ELSE IF nodeType(V[k].n) # ELEMENT_NODE
    THEN selectFrom(d, s, V, k + 1, leftMatches, nodes, single)
  ELSE IF selectorToMatch(d, s, leftMatches, V[k].n, V[k].parent, V[k].index)
    THEN IF single THEN [nodes |-> nodes, thrown |-> V[k].n]
         ELSE selectFrom(d, s, V, k + 1,
                         recorded(d, s, leftMatches, V[k].n, V[k].parent),
                         Append(nodes, V[k].n), single)
  ELSE selectFrom(d, s, V, k + 1,
                  recorded(d, s, leftMatches, V[k].n, V[k].parent),
                  nodes, single)

select(d, node, s, single) ==
  selectFrom(d, s, walkSync(d, node, Null), 1, {}, <<>>, single)

\* The outcome of a query: the list returned, the value returned, whether
\* the call raised.
Answer(nodes, value, threw) ==
  [nodes |-> nodes, value |-> value, threw |-> threw]

querySelectorAll(d, node, s) ==
  IF selectorToMatchThrows(s) THEN Answer(<<>>, Null, TRUE)
  ELSE Answer(select(d, node, s, FALSE).nodes, Null, FALSE)

\* querySelector: a match is thrown out of the walk and the catch clause,
\* which binds nothing, returns null; without a match the walk returns an
\* empty array whose element 0 is returned.
caught(r) == IF r.thrown # Null THEN Null ELSE Undefined

querySelector(d, node, s) ==
  IF selectorToMatchThrows(s) THEN Answer(<<>>, Null, TRUE)
  ELSE Answer(<<>>, caught(select(d, node, s, TRUE)), FALSE)

BoolValue(b) == IF b THEN "true" ELSE "false"

\* matches(node, selector): one call of a fresh matcher.
matches(d, node, s) ==
  IF selectorToMatchThrows(s) THEN Answer(<<>>, Null, TRUE)
  ELSE Answer(<<>>,
              BoolValue(selectorToMatch(d, s, {}, node, d.parentNode[node],
                          nthChildIndex(d, node, d.parentNode[node]))),
              FALSE)

\* The trees queried: built from the empty document by appendChild calls
\* that return normally and leave lists, sibling chains and parent links
\* in agreement.
SelPool == Elements \cup Texts
SelRoots == Documents \cup {"e3"}

\* The calls whose answer is observed; the caller looks at the answer
\* before making the next call.
Queries == {"querySelectorAll", "querySelector", "matches"}

SelOp(d, name, root, s, r) ==
  /\ dom' = d
  /\ sel' = [name |-> name, root |-> root, selector |-> s, nodes |-> r.nodes,
             value |-> r.value, threw |-> r.threw]
  /\ UNCHANGED <<last, nops, coll, lastRead, cache, wire, attrs, objs, tok, ds>>

SelAppendChild ==
  \E p \in SelRoots, c \in SelPool :
    /\ sel.name \notin Queries
    /\ ~appendChild(dom, p, c).threw
    /\ WellFormed(appendChild(dom, p, c).dom)
    /\ SelOp(appendChild(dom, p, c).dom, "appendChild", p, NoSelector,
             Answer(<<>>, Null, FALSE))

QuerySelectorAll ==
  \E root \in SelRoots, s \in Selectors :
    /\ sel.name \notin Queries
    /\ SelOp(dom, "querySelectorAll", root, s, querySelectorAll(dom, root, s))

QuerySelector ==
  \E root \in SelRoots, s \in Selectors :
    /\ sel.name \notin Queries
    /\ SelOp(dom, "querySelector", root, s, querySelector(dom, root, s))

Matches ==
  \E node \in Elements, s \in Selectors :
    /\ sel.name \notin Queries
    /\ SelOp(dom, "matches", node, s, matches(dom, node, s))

SelContinue ==
  /\ sel.name \in Queries
  /\ sel' = NoSel
  /\ UNCHANGED <<dom, last, nops, coll, lastRead, cache, wire, attrs, objs,
                 tok, ds>>

NextSelect ==
  \/ SelAppendChild
  \/ QuerySelectorAll \/ QuerySelector \/ Matches
  \/ SelContinue

SpecSelect == Init /\ [][NextSelect]_vars

\* ------------------------------------------------------------------------
\* Attribute selectors (select.ts, createMatch "attribute")
\* ------------------------------------------------------------------------

\* Characters of attribute values and of the values selectors compare with.
AttrChars == {"a", "A", " ", "-"}
MaxValueLen == 3
AttrStrings == UNION {[1..n -> AttrChars] : n \in 0..MaxValueLen}
SelectorValues == {<<"a">>, <<"A">>, <<"a", "-">>}
Operators == {"=", "~=", "|=", "*=", "$=", "^="}

\* String.prototype.toLowerCase
toLowerCase(str) == [i \in 1..Len(str) |-> toLowerCaseChar(str[i])]

startsWith(a, b) == Len(b) <= Len(a) /\ SubSeq(a, 1, Len(b)) = b
endsWith(a, b) ==
  Len(b) <= Len(a) /\ SubSeq(a, Len(a) - Len(b) + 1, Len(a)) = b
\* a.indexOf(b) > -1
includesString(a, b) ==
  \E i \in 1..(Len(a) + 1) :
    i + Len(b) - 1 <= Len(a) /\ SubSeq(a, i, i + Len(b) - 1) = b

\* getAttributeMatch(selector)(a, b) for two strings.
getAttributeMatch(operator, a, b) ==
  IF operator = "=" THEN a = b
  ELSE IF operator = "~=" THEN b \in Range(StringPrototypeSplit(a))
  ELSE IF operator = "|=" THEN startsWith(a, b \o <<"-">>)
  ELSE IF operator = "*=" THEN includesString(a, b)
  ELSE IF operator = "$=" THEN endsWith(a, b)
  ELSE IF operator = "^=" THEN startsWith(a, b)
  ELSE FALSE

\* An element's attributes: a list of name / value pairs, names distinct.
AttrPair(name, value) == [name |-> name, value |-> value]
AttributeLists ==
  {<<>>}
  \cup {<<AttrPair("class", v)>> : v \in AttrStrings}
  \cup {<<AttrPair("length", v)>> : v \in {<<"a">>}}
  \cup {<<AttrPair("class", v), AttrPair("length", <<"a">>)>> :
          v \in {<<"a">>}}

hasNamedItem(list, name) == \E i \in 1..Len(list) : list[i].name = name

\* Object.entries that yields every attribute under its name.
objectEntries_Attrs(list) ==
  [i \in 1..Len(list) |-> [key |-> list[i].name, value |-> Len(list), attr |-> i]]

\* Object.entries(node.attributes).  The ownKeys trap reads `t[i]` on the
\* proxy's target, which has no indexed properties, so it reports no
\* attribute name and no index: the keys are "length" alone.  That key has
\* a property descriptor only when getNamedItem("length") finds an
\* attribute, and its value is read through the get trap, which answers
\* "length" with the number of attributes.
\* `attr` is the position in the list of the Attr an entry's value is, 0
\* for a value that is not an Attr.
objectEntries(list) ==
  IF hasNamedItem(list, "length")
    THEN <<[key |-> "length", value |-> Len(list), attr |-> 0]>>
  ELSE <<>>

\* An attribute selector: [name], [name op value] or [name op value i].
AttributeToken(name, operator, value, caseSensitive) ==
  [name |-> name, operator |-> operator, value |-> value,
   caseSensitive |-> caseSensitive]
AttributeTokens ==
  {AttributeToken(n, "", <<>>, "") : n \in {"class", "length"}}
  \cup {AttributeToken(n, o, v, c) :
          n \in {"class", "length"}, o \in Operators, v \in SelectorValues,
          c \in {"", "i"}}

\* The matcher's loop body for the one entry Object.entries can yield,
\* whose value is a number: assigning `attrVal.value` raises, as does a
\* string method applied to its undefined `value`.
Verdict(value, threw) == [value |-> value, threw |-> threw]

entryMatch(entry, s) ==
  IF s.caseSensitive = "i" THEN Verdict(Null, TRUE)
  ELSE IF entry.key # s.name THEN Verdict("false", FALSE)
  ELSE IF s.value = <<>> THEN Verdict("true", FALSE)
  ELSE IF s.operator = "=" THEN Verdict("false", FALSE)
  ELSE Verdict(Null, TRUE)

\* createMatch(selector)(node) for an attribute selector.
attributeMatch(list, s) ==
  IF objectEntries(list) = <<>> THEN Verdict("false", FALSE)
  ELSE entryMatch(objectEntries(list)[1], s)

\* The characters of an attribute name.
chars(name) ==
  IF name = "class" THEN <<"c", "l", "a", "s", "s">>
  ELSE <<"l", "e", "n", "g", "t", "h">>

\* The attribute list once the matcher's loop, at entry i, is over.  With
\* the "i" flag every entry visited is assigned the lower-cased key as its
\* `value`: on an Attr that changes the attribute, on any other value the
\* assignment raises and ends the loop.  The loop ends as well at the first
\* entry whose key is the selector's name.
RECURSIVE attributesAfterFrom(_, _, _, _)
attributesAfterFrom(list, entries, s, i) ==
  IF i > Len(entries) THEN list
  ELSE IF s.caseSensitive = "i" /\ entries[i].attr = 0 THEN list
  ELSE IF entries[i].key = s.name
    THEN (IF s.caseSensitive = "i"
            THEN [list EXCEPT ![entries[i].attr].value =
                                toLowerCase(chars(entries[i].key))]
            ELSE list)
  ELSE attributesAfterFrom(
         IF s.caseSensitive = "i"
           THEN [list EXCEPT ![entries[i].attr].value =
                               toLowerCase(chars(entries[i].key))]
           ELSE list,
         entries, s, i + 1)

\* The element's attributes after createMatch(selector)(node) has run.
attributesAfter(list, s) == attributesAfterFrom(list, objectEntries(list), s, 1)

AttrSelOp(name, list, s, a, b, r) ==
  /\ sel' = [name |-> name, attributes |-> list, selector |-> s,
             a |-> a, b |-> b, value |-> r.value, threw |-> r.threw,
             after |-> attributesAfter(list, s)]
  /\ UNCHANGED <<dom, last, nops, coll, lastRead, cache, wire, attrs, objs,
                 tok, ds>>

\* The matcher of an attribute selector applied to an element.
AttributeMatch ==
  \E list \in AttributeLists, s \in AttributeTokens :
    /\ sel.name = "none"
    /\ AttrSelOp("attribute", list, s, <<>>, <<>>, attributeMatch(list, s))

\* The comparison of an operator applied to two strings.
GetAttributeMatch ==
  \E o \in Operators, a \in AttrStrings, b \in SelectorValues :
    /\ sel.name = "none"
    /\ AttrSelOp("getAttributeMatch", <<>>,
                 AttributeToken("", o, <<>>, ""), a, b,
                 Verdict(BoolValue(getAttributeMatch(o, a, b)), FALSE))

NextAttrSelect == AttributeMatch \/ GetAttributeMatch

SpecAttrSelect == Init /\ [][NextAttrSelect]_vars

\* ------------------------------------------------------------------------
\* The list ParentNode.querySelectorAll returns
\* ------------------------------------------------------------------------

\* Selector strings handed to ParentNode.querySelectorAll and what the
\* parser makes of them.
SelectorStrings == {"*", "a", ".b"}

parse(str) ==
  IF str = "*" THEN Compound(<<Token("universal", <<>>, "", "")>>)
  ELSE IF str = "a" THEN Compound(<<Token("type", <<"a">>, "", "")>>)
  ELSE IF str = ".b" THEN Compound(<<Token("class", <<"b">>, "", "")>>)
  ELSE Invalid

\* A list that follows the tree: a collection with a recompute function
\* over the same owner.
ParentNodeQuerySelectorAll_Live(d, this, selectors) ==
  createHTMLCollection(d, this, "tagName", "*")

\* ParentNode.querySelectorAll: `new NodeList(this, elements)` without a
\* recompute function, elements being what the query returns now.  (`arg`
\* notes the selector string for the observer; the list does not keep it.)
ParentNodeQuerySelectorAll(d, this, selectors) ==
  [owner |-> this, rule |-> "static", arg |-> selectors, hasGetter |-> FALSE,
   storage |-> querySelectorAll(d, this, parse(selectors)).nodes]

\* The list's owner, the nodes that receive and lose children, the nodes
\* moved, and the attribute values written to `class`.
StaticOwners == {"e3"}
StaticParents == {"e3", "e1"}
StaticPool == {"e1", "e2", "t1"}
ClassValues == {<<"b">>}

StaticAppendChild == AppendChildOf(StaticParents, StaticPool)
StaticRemoveChild == RemoveChildOf(StaticParents, StaticPool)

\* el.setAttribute("class", v) / el.removeAttribute("class") on an element
\* that has the attribute.
SetClass(e, v) ==
  /\ last.op = "none"
  /\ nops < MaxOps
  /\ dom' = [dom EXCEPT !.className[e] = v]
  /\ last' = [NoCall EXCEPT !.op = "setAttribute", !.this = e, !.pre = dom]
  /\ nops' = nops + 1
  /\ UNCHANGED <<coll, lastRead, ext>>

StaticSetAttribute ==
  \E e \in StaticPool \cap Elements, v \in ClassValues : SetClass(e, <<v>>)

StaticRemoveAttribute ==
  \E e \in StaticPool \cap Elements : hasClass(dom, e) /\ SetClass(e, <<>>)

\* `owner.querySelectorAll(selectors)` on a tree the walk comes back from;
\* the caller keeps the list.
ObtainQuery ==
  \E owner \in StaticOwners, selectors \in SelectorStrings :
    /\ coll = NoColl
    /\ last.op = "none"
    /\ WellFormed(dom)
    /\ Obtain(ParentNodeQuerySelectorAll(dom, owner, selectors))

NextStatic ==
  \/ StaticAppendChild \/ StaticRemoveChild
  \/ StaticSetAttribute \/ StaticRemoveAttribute
  \/ ObtainQuery
  \/ ReadLength \/ ReadIndex \/ ReadIterate
  \/ Continue

SpecStatic == Init /\ [][NextStatic]_vars

\* ------------------------------------------------------------------------
\* Removing an attribute by name or by namespace and local name
\* ------------------------------------------------------------------------

\* Namespaces passed to the NS calls.  Every Attr of the model is created
\* by setAttribute on an element without namespace, so its namespaceURI is
\* null and, its name holding no colon, its localName is its name.
Namespaces == {Null, "ns"}
namespaceURI(A, a) == Null
localName(A, a) == A.name[a]

\* NamedNodeMap.getNamedItemNS: the first Attr of the map with that local
\* name and namespace, from index k on.
RECURSIVE getNamedItemNSFrom(_, _, _, _, _)
getNamedItemNSFrom(A, L, namespace, local, k) ==
  IF k >= Len(L) THEN Null
  ELSE IF localName(A, at(L, k)) = local
          /\ namespaceURI(A, at(L, k)) = namespace THEN at(L, k)
  ELSE getNamedItemNSFrom(A, L, namespace, local, k + 1)

getNamedItemNS(A, el, namespace, local) ==
  getNamedItemNSFrom(A, A.list[el], namespace, local, 0)

\* The outcome of a removal: the attribute state after it and whether the
\* call raised.
Removal(A, threw) == [attrs |-> A, threw |-> threw]

\* Element.removeAttribute
removeAttribute(A, el, name) ==
  IF getAttributeNode(A, el, name) = Null THEN Removal(A, TRUE)
  ELSE Removal(removeAttributeNode(A, el, getAttributeNode(A, el, name)), FALSE)

\* Element.removeAttributeNS: every Attr of the map with that namespace and
\* local name is handed to removeAttributeNode; there is no other branch.
removeAttributeNS(A, el, namespace, local) ==
  IF getNamedItemNS(A, el, namespace, local) = Null THEN Removal(A, FALSE)
  ELSE Removal(removeAttributeNode(A, el,
                 getNamedItemNS(A, el, namespace, local)), FALSE)

\* NamedNodeMap.removeNamedItem by name
removeNamedItemByName(A, el, name) ==
  IF namedItem(A, el, name) = Null THEN Removal(A, TRUE)
  ELSE Removal(removeNamedItem(A, el, namedItem(A, el, name)), FALSE)

\* NamedNodeMap.removeNamedItemNS
removeNamedItemNS(A, el, namespace, local) ==
  IF getNamedItemNS(A, el, namespace, local) = Null THEN Removal(A, TRUE)
  ELSE Removal(removeNamedItem(A, el,
                 getNamedItemNS(A, el, namespace, local)), FALSE)

\* A removal call made by the caller: `last` keeps the call, whether it
\* raised and the attribute state it was made on.
RemovalCall(op, el, namespace, name, r) ==
  /\ last.op = "none"
  /\ attrs' = r.attrs
  /\ last' = [op |-> op, this |-> el, namespace |-> namespace, name |-> name,
              threw |-> r.threw, pre |-> attrs]
  /\ UNCHANGED <<dom, nops, coll, lastRead, cache, wire, objs, tok, ds, sel>>

RemovalSetAttribute == last.op = "none" /\ SetAttribute

CallRemoveAttribute ==
  \E el \in AttrElements, name \in AttrNames :
    RemovalCall("removeAttribute", el, Null, name,
                removeAttribute(attrs, el, name))

CallRemoveAttributeNS ==
  \E el \in AttrElements, ns \in Namespaces, name \in AttrNames :
    RemovalCall("removeAttributeNS", el, ns, name,
                removeAttributeNS(attrs, el, ns, name))

CallRemoveNamedItem ==
  \E el \in AttrElements, name \in AttrNames :
    RemovalCall("removeNamedItem", el, Null, name,
                removeNamedItemByName(attrs, el, name))

CallRemoveNamedItemNS ==
  \E el \in AttrElements, ns \in Namespaces, name \in AttrNames :
    RemovalCall("removeNamedItemNS", el, ns, name,
                removeNamedItemNS(attrs, el, ns, name))

NextRemoval ==
  \/ RemovalSetAttribute
  \/ CallRemoveAttribute \/ CallRemoveAttributeNS
  \/ CallRemoveNamedItem \/ CallRemoveNamedItemNS
  \/ Continue

SpecRemoval == Init /\ [][NextRemoval]_vars

\* ------------------------------------------------------------------------
\* buildSubtree called without a build context
\* ------------------------------------------------------------------------

\* `next && next.parentNode === parent ? next : prev?.nextSibling ?? null`
reference(d, parent, prev, next) ==
  IF next # Null /\ d.parentNode[next] = parent THEN next
  ELSE IF prev # Null THEN d.nextSibling[prev]
  ELSE Null

\* buildSubtree attaching domNode under parent at the reference node.
attachAt(d, parent, domNode, ref) ==
  IF parent = Null THEN Ok(d, domNode)
  ELSE IF ref # Null THEN insertBefore(d, parent, domNode, ref)
  ELSE appendChild(d, parent, domNode)

\* `parent?.ownerDocument ?? null`: the document of the context buildSubtree
\* makes up when it is given none.
contextDocument(d, parent) ==
  IF parent = Null THEN Null ELSE d.ownerDocument[parent]

\* buildSubtree(node, parent, prev, next) for the non-document record `id`
\* without context.  An unresolved record is refused; for a resolved one
\* instantiateDomNode refuses only when the made-up context has no
\* document.  The made-up lookup holds the record alone, so no child
\* record is found and the loop ends at once.
buildSubtreeWithoutContext(d, id, resolved, parent, prev, next) ==
  IF ~resolved THEN Throw(d)
  ELSE IF contextDocument(d, parent) = Null THEN Throw(d)
  ELSE attachAt(d, parent, instance(id), reference(d, parent, prev, next))

\* Wire records handed to buildSubtree alone (their nodes are not built
\* yet), and the nodes of the tree they may be attached to.
SubtreeIds == {3, 4}
SubtreeNodes == {"e1", "e2"}

SubtreeAppendChild == AppendChildOf(Documents \cup SubtreeNodes, SubtreeNodes)

BuildSubtree ==
  \E id \in SubtreeIds, resolved \in BOOLEAN,
     parent \in Documents \cup SubtreeNodes \cup {Null},
     prev \in SubtreeNodes \cup {Null}, next \in SubtreeNodes \cup {Null} :
    /\ last.op = "none"
    /\ dom.parentNode[instance(id)] = Null
    /\ dom' = buildSubtreeWithoutContext(dom, id, resolved, parent, prev,
                                         next).dom
    /\ last' = [op |-> "buildSubtree", this |-> parent,
                newChild |-> instance(id), ref |-> next,
                threw |-> buildSubtreeWithoutContext(dom, id, resolved, parent,
                                                     prev, next).threw,
                ret |-> buildSubtreeWithoutContext(dom, id, resolved, parent,
                                                   prev, next).ret,
                pre |-> dom]
    /\ UNCHANGED <<nops, coll, lastRead, ext>>

NextSubtree == SubtreeAppendChild \/ BuildSubtree \/ Continue

SpecSubtree == Init /\ [][NextSubtree]_vars

\* ------------------------------------------------------------------------
\* Walks over the tree: do they come back?
\* ------------------------------------------------------------------------

\* Node.getRootNode: `while (node.parentNode) node = node.parentNode`, or
\* Endless when the loop is still running after `fuel` iterations.
RECURSIVE getRootNodeFrom(_, _, _)
getRootNodeFrom(d, node, fuel) ==
  IF d.parentNode[node] = Null THEN node
  ELSE IF fuel = 0 THEN Endless
  ELSE getRootNodeFrom(d, d.parentNode[node], fuel - 1)

getRootNode(d, node) == getRootNodeFrom(d, node, MaxWalk)

\* The recursion over childNodes that walkSync, textContent, normalize and
\* cloneNode(true) share: `pending` are the nodes still to be visited.
\* Null when every node was visited, Endless when `fuel` visits did not
\* suffice.
RECURSIVE descendFrom(_, _, _)
descendFrom(d, pending, fuel) ==
  IF pending = <<>> THEN Null
  ELSE IF fuel = 0 THEN Endless
  ELSE IF Head(pending) = Null THEN descendFrom(d, Tail(pending), fuel - 1)
  ELSE descendFrom(d, d.childNodes[Head(pending)] \o Tail(pending), fuel - 1)

descend(d, node) == descendFrom(d, d.childNodes[node], MaxWalk)

\* ------------------------------------------------------------------------
\* Writes through the childNodes list
\* ------------------------------------------------------------------------

\* ParentNode.childElementCount: the elements met iterating childNodes.
childElementCount(d, this) ==
  Len(SelectSeq(d.childNodes[this], LAMBDA n : n \in Elements))

ListParents == {"e3", "e1"}
ListPool == {"e1", "e2", "t1"}

ListAppendChild == AppendChildOf(ListParents, ListPool)
ListInsertBefore == InsertBeforeOf(ListParents, ListPool)
ListRemoveChild == RemoveChildOf(ListParents, ListPool)

\* A write through the list proxy of p.childNodes that leaves the list as L.
ListWrite(name, p, x, L) ==
  /\ last.op = "none"
  /\ nops < MaxOps
  /\ dom' = [dom EXCEPT !.childNodes[p] = L]
  /\ last' = [NoCall EXCEPT !.op = name, !.this = p, !.newChild = x,
                            !.pre = dom]
  /\ nops' = nops + 1
  /\ UNCHANGED <<coll, lastRead, ext>>

\* `p.childNodes[k] = x`: the set trap calls setListIndex.
SetChildNodesIndex ==
  \E p \in ListParents, k \in Indexes, x \in ListPool :
    ListWrite("set", p, x, setListIndex(dom.childNodes[p], k, x))

\* `delete p.childNodes[k]`: the deleteProperty trap calls deleteListIndex.
DeleteChildNodesIndex ==
  \E p \in ListParents, k \in Indexes :
    ListWrite("delete", p, Null, deleteListIndex(dom.childNodes[p], k))

\* `p.childNodes.length = n`: the set trap calls trimList.
SetChildNodesLength ==
  \E p \in ListParents, n \in Indexes :
    ListWrite("length", p, Null, trimList(dom.childNodes[p], n))

NextChildNodes ==
  \/ ListAppendChild \/ ListInsertBefore \/ ListRemoveChild
  \/ SetChildNodesIndex \/ DeleteChildNodesIndex \/ SetChildNodesLength
  \/ Continue

SpecChildNodes == Init /\ [][NextChildNodes]_vars

\* ------------------------------------------------------------------------
\* Node objects with text: normalize
\* ------------------------------------------------------------------------
\* The heap of the clone section, the nodeValue of a Text being a sequence
\* of characters.  The sibling links of an object are read off the child
\* list of its parent; a detached object has none.

heapFirstChild(H, n) ==
  IF H[n].childNodes = <<>> THEN NoNode ELSE H[n].childNodes[1]

positionIn(L, x) == CHOOSE i \in 1..Len(L) : L[i] = x

heapNextSibling(H, n) ==
  IF H[n].parentNode = NoNode THEN NoNode
  ELSE IF positionIn(H[H[n].parentNode].childNodes, n)
            = Len(H[H[n].parentNode].childNodes) THEN NoNode
  ELSE H[H[n].parentNode].childNodes[
         positionIn(H[H[n].parentNode].childNodes, n) + 1]

Done(H, threw) == [heap |-> H, threw |-> threw]

\* Node.removeChild on the heap.
heapRemoveChild(H, this, oldChild) ==
  IF oldChild \notin Range(H[this].childNodes) THEN Done(H, TRUE)
  ELSE Done([H EXCEPT ![this].childNodes = Without(@, oldChild),
                      ![oldChild].parentNode = NoNode], FALSE)

\* normalize's inner loop: each Text that follows child is added to
\* child's nodeValue and removed.
RECURSIVE mergeRun(_, _, _, _)
mergeRun(H, this, child, cursor) ==
  IF cursor = NoNode THEN H
  ELSE IF H[cursor].nodeType # TEXT_NODE THEN H
  ELSE mergeRun(
         heapRemoveChild(
           [H EXCEPT ![child].nodeValue = @ \o H[cursor].nodeValue],
           this, cursor).heap,
         this, child, heapNextSibling(H, cursor))

\* `if (!child.nodeValue) this.removeChild(child);`
dropEmpty(H, this, child) ==
  IF H[child].nodeValue = <<>> THEN heapRemoveChild(H, this, child)
  ELSE Done(H, FALSE)

\* Node.normalize: the loop over the children from `child`, whose successor
\* is read before child is dealt with.
RECURSIVE normalizeFrom(_, _, _)
RECURSIVE normalize(_, _)

normalizeChild(H, this, child) ==
  IF H[child].nodeType = TEXT_NODE
    THEN dropEmpty(mergeRun(H, this, child, heapNextSibling(H, child)),
                   this, child)
    ELSE normalize(H, child)

normalizeNext(r, this, next) ==
  IF r.threw THEN r ELSE normalizeFrom(r.heap, this, next)

normalizeFrom(H, this, child) ==
  IF child = NoNode THEN Done(H, FALSE)
  ELSE normalizeNext(normalizeChild(H, this, child), this,
                     heapNextSibling(H, child))

normalize(H, this) == normalizeFrom(H, this, heapFirstChild(H, this))

\* The trees normalize is applied to: an element with up to MaxKids
\* children, each a Text (possibly empty) or an element; the first element
\* child may hold two Texts of its own.
MaxKids == 4
Kinds == {<<"x">>, <<"y">>, <<>>, <<"e">>}
IsElementKind(k) == k = <<"e">>

kidObject(kind, kids) ==
  IF IsElementKind(kind)
    THEN [newElement("a", <<>>) EXCEPT !.parentNode = 1, !.childNodes = kids]
    ELSE [newText(kind) EXCEPT !.parentNode = 1]

FirstElementKid(kinds) ==
  IF \E i \in 1..Len(kinds) : IsElementKind(kinds[i])
    THEN CHOOSE i \in 1..Len(kinds) :
           /\ IsElementKind(kinds[i])
           /\ \A j \in 1..(i - 1) : ~IsElementKind(kinds[j])
    ELSE 0

treeOf(kinds, nested) ==
  << [newElement("a", <<>>) EXCEPT
        !.childNodes = [i \in 1..Len(kinds) |-> i + 1]] >>
  \o [i \in 1..Len(kinds) |->
        kidObject(kinds[i],
                  IF nested /\ i = FirstElementKid(kinds)
                    THEN <<Len(kinds) + 2, Len(kinds) + 3>> ELSE <<>>)]
  \o (IF nested /\ FirstElementKid(kinds) # 0
        THEN << [newText(<<"x">>) EXCEPT
                   !.parentNode = FirstElementKid(kinds) + 1],
                [newText(<<"y">>) EXCEPT
                   !.parentNode = FirstElementKid(kinds) + 1] >>
        ELSE <<>>)

TextTrees ==
  {treeOf(kinds, nested) :
     kinds \in UNION {[1..n -> Kinds] : n \in 0..MaxKids},
     nested \in BOOLEAN}

InitNormalize == InitHeaps(TextTrees)

\* `this.normalize()` on an element of the tree.
Normalize ==
  \E this \in 1..Len(objs.heap) :
    /\ objs.calls = <<>>
    /\ objs.heap[this].nodeType = ELEMENT_NODE
    /\ ObjOp([objs EXCEPT
                !.heap = normalize(objs.heap, this).heap,
                !.calls = <<[this |-> this, pre |-> objs.heap,
                             threw |-> normalize(objs.heap, this).threw]>>])

NextNormalize == Normalize

SpecNormalize == InitNormalize /\ [][NextNormalize]_vars

\* ------------------------------------------------------------------------
\* Document objects: cloneNode and the cached accessors
\* ------------------------------------------------------------------------
\* A Document object of the heap carries the private fields its accessors
\* fill on first read (#documentElement, #doctype, #head, #body), NoNode
\* standing for null.

DOCUMENT_TYPE_NODE == 10

Roles == {"documentElement", "doctype", "head", "body"}

\* `new Document(contentType, quirksMode)`
newDocument ==
  [nodeType |-> DOCUMENT_NODE, nodeName |-> "#document", tagName |-> Null,
   nodeValue |-> Null, attributes |-> <<>>, childNodes |-> <<>>,
   parentNode |-> NoNode, documentElement |-> NoNode, doctype |-> NoNode,
   head |-> NoNode, body |-> NoNode]

\* `new DocumentType(name, publicId, systemId, internalSubset)`
newDocumentType ==
  [nodeType |-> DOCUMENT_TYPE_NODE, nodeName |-> "html", tagName |-> Null,
   nodeValue |-> Null, attributes |-> <<>>, childNodes |-> <<>>,
   parentNode |-> NoNode]

\* `tagName.toLowerCase()` on the tag names in use
tagNameToLowerCase(t) ==
  IF t = "HTML" THEN "html" ELSE IF t = "HEAD" THEN "head"
  ELSE IF t = "BODY" THEN "body" ELSE IF t = "A" THEN "a" ELSE t

\* The accessors' loops: the first child of n, from position i on, of the
\* given node type, or that is an element of tag name `tag`.
RECURSIVE firstOfType(_, _, _, _)
firstOfType(H, n, type, i) ==
  IF i > Len(H[n].childNodes) THEN NoNode
  ELSE IF H[H[n].childNodes[i]].nodeType = type THEN H[n].childNodes[i]
  ELSE firstOfType(H, n, type, i + 1)

RECURSIVE firstOfTag(_, _, _, _)
firstOfTag(H, n, tag, i) ==
  IF n = NoNode THEN NoNode
  ELSE IF i > Len(H[n].childNodes) THEN NoNode
  ELSE IF /\ H[H[n].childNodes[i]].nodeType = ELEMENT_NODE
          /\ tagNameToLowerCase(H[H[n].childNodes[i]].tagName) = tag
    THEN H[n].childNodes[i]
  ELSE firstOfTag(H, n, tag, i + 1)

\* What `doc.documentElement`, `doc.doctype`, `doc.head` and `doc.body`
\* answer: the private field when it is set, the outcome of the search
\* otherwise.
RECURSIVE docRole(_, _, _)
docRole(H, doc, role) ==
  IF H[doc][role] # NoNode THEN H[doc][role]
  ELSE IF role = "documentElement" THEN firstOfType(H, doc, ELEMENT_NODE, 1)
  ELSE IF role = "doctype" THEN firstOfType(H, doc, DOCUMENT_TYPE_NODE, 1)
  ELSE firstOfTag(H, docRole(H, doc, "documentElement"), role, 1)

\* The heap after a read of the accessor: `??=` stores the answer, and
\* head and body read documentElement on their way.
readRole(H, doc, role) ==
  IF role \in {"head", "body"} /\ H[doc][role] = NoNode
    THEN [H EXCEPT ![doc].documentElement = docRole(H, doc, "documentElement"),
                   ![doc][role] = docRole(H, doc, role)]
    ELSE [H EXCEPT ![doc][role] = docRole(H, doc, role)]

\* `child.cloneNode(true)` for a child of a Document.
cloneDocumentChild(H, child) ==
  IF H[child].nodeType = DOCUMENT_TYPE_NODE
    THEN [heap |-> Append(H, newDocumentType), ret |-> Len(H) + 1]
    ELSE cloneNode(H, child, TRUE)

RECURSIVE cloneDocumentChildren(_, _, _, _)
cloneDocumentChildren(r, clone, kids, i) ==
  IF i > Len(kids) THEN [heap |-> r.heap, ret |-> clone]
  ELSE cloneDocumentChildren(
         appendClone(cloneDocumentChild(r.heap, kids[i]), clone),
         clone, kids, i + 1)

\* `clone.#role = this.role?.cloneNode(..) ?? null` once `this.role` has
\* been read from heap H and answered `source`.
assignRole(H, clone, role, source) ==
  IF source = NoNode THEN H
  ELSE [cloneDocumentChild(H, source).heap EXCEPT
          ![clone][role] = cloneDocumentChild(H, source).ret]

cloneRole(H, this, clone, role) ==
  assignRole(readRole(H, this, role), clone, role, docRole(H, this, role))

\* Document.cloneNode(deep)
documentCloneNode(H, this, deep) ==
  IF ~deep THEN [heap |-> Append(H, newDocument), ret |-> Len(H) + 1]
  ELSE [heap |->
          cloneRole(
            cloneRole(
              cloneRole(
                cloneRole(
                  cloneDocumentChildren(
                    [heap |-> Append(H, newDocument), ret |-> Len(H) + 1],
                    Len(H) + 1, H[this].childNodes, 1).heap,
                  this, Len(H) + 1, "doctype"),
                this, Len(H) + 1, "documentElement"),
              this, Len(H) + 1, "head"),
            this, Len(H) + 1, "body"),
        ret |-> Len(H) + 1]

\* The documents cloned: a Document with or without a doctype, with or
\* without an html element, which has or has not a head and a body.
htmlElement(tag, parent, kids) ==
  [newElement("a", <<>>) EXCEPT !.nodeName = tag, !.tagName = tag,
                               !.parentNode = parent, !.childNodes = kids]

documentOf(hasDoctype, hasHead, hasBody) ==
  (IF hasDoctype
     THEN << [newDocument EXCEPT !.childNodes = <<2, 3>>],
             [newDocumentType EXCEPT !.parentNode = 1] >>
     ELSE << [newDocument EXCEPT !.childNodes = <<2>>] >>)
  \o << htmlElement("HTML", 1,
          IF hasHead /\ hasBody
            THEN IF hasDoctype THEN <<4, 5>> ELSE <<3, 4>>
          ELSE IF hasHead \/ hasBody
            THEN IF hasDoctype THEN <<4>> ELSE <<3>>
          ELSE <<>>) >>
  \o (IF hasHead
        THEN <<htmlElement("HEAD", IF hasDoctype THEN 3 ELSE 2, <<>>)>>
        ELSE <<>>)
  \o (IF hasBody
        THEN <<htmlElement("BODY", IF hasDoctype THEN 3 ELSE 2, <<>>)>>
        ELSE <<>>)

SourceDocuments ==
  {<<newDocument>>}
  \cup {documentOf(t, h, b) : t \in BOOLEAN, h \in BOOLEAN, b \in BOOLEAN}

InitDocuments == InitHeaps(SourceDocuments)

\* A read of one of the accessors of the source document.
ReadDocumentRole ==
  \E role \in Roles :
    /\ objs.calls = <<>>
    /\ objs.heap[1][role] = NoNode
    /\ docRole(objs.heap, 1, role) # NoNode
    /\ ObjOp([objs EXCEPT !.heap = readRole(objs.heap, 1, role)])

\* `d.cloneNode(deep)` on the source document.
DocumentCloneNode ==
  \E deep \in BOOLEAN :
    /\ objs.calls = <<>>
    /\ Cloned(1, deep, documentCloneNode(objs.heap, 1, deep))

NextDocuments == ReadDocumentRole \/ DocumentCloneNode

SpecDocuments == InitDocuments /\ [][NextDocuments]_vars

\* ------------------------------------------------------------------------
\* setAttribute on any attribute list
\* ------------------------------------------------------------------------

\* The names given to setAttribute: two that differ in case only, and one
\* other.
SetNames == {"class", "CLASS", "id"}

\* `el.setAttribute(name, value)` made by the caller: `last` keeps the call
\* and the attribute state it was made on.
CallSetAttribute ==
  \E el \in AttrElements, name \in SetNames, value \in AttrValues :
    /\ last.op = "none"
    /\ FreeAttrs(attrs) # {}
    /\ attrs' = setAttribute(attrs, el, name, value, freshAttr(attrs))
    /\ last' = [op |-> "setAttribute", this |-> el, name |-> name,
                value |-> value, threw |-> FALSE, pre |-> attrs]
    /\ UNCHANGED <<dom, nops, coll, lastRead, cache, wire, objs, tok, ds, sel>>

SetRemoveAttribute ==
  \E el \in AttrElements, name \in SetNames :
    RemovalCall("removeAttribute", el, Null, name,
                removeAttribute(attrs, el, name))

NextSetAttribute == CallSetAttribute \/ SetRemoveAttribute \/ Continue

SpecSetAttribute == Init /\ [][NextSetAttribute]_vars

Mutations == {"insertBefore", "appendChild", "replaceChild", "removeChild"}

\* ------------------------------------------------------------------------
\* Claims
\* ------------------------------------------------------------------------

\* C1: after every public mutation, for every node p, following nextSibling
\* from p.firstChild visits finitely many nodes and ends at p.lastChild, and
\* following previousSibling from p.lastChild visits the same nodes in
\* reverse order; firstChild and lastChild are null together.
C1_SiblingChainsAgree ==
  \A p \in Nodes :
    /\ Endless \notin Range(forwardChain(dom, p))
    /\ Endless \notin Range(backwardChain(dom, p))
    /\ backwardChain(dom, p) = Reverse(forwardChain(dom, p))
    /\ (dom.firstChild[p] = Null <=> dom.lastChild[p] = Null)

\* C2: after every public mutation, c.parentNode is p exactly when c lies on
\* p's sibling chain (is reachable from p.firstChild through nextSibling).
C2_ParentIffOnChain ==
  \A p \in Nodes, c \in Nodes :
    dom.parentNode[c] = p <=> c \in Range(forwardChain(dom, p))

\* C3: after any sequence of public mutations the parent links are acyclic
\* and a Document is never a child or a sibling of any node.
C3_AcyclicAndDocumentIsRoot ==
  /\ \A n \in Nodes :
       /\ Endless \notin Range(ancestors(dom, n))
       /\ n \notin Range(ancestors(dom, n))
  /\ \A doc \in Documents, n \in Nodes :
       /\ dom.parentNode[doc] = Null
       /\ dom.previousSibling[doc] = Null /\ dom.nextSibling[doc] = Null
       /\ dom.firstChild[n] # doc /\ dom.lastChild[n] # doc
       /\ dom.nextSibling[n] # doc /\ dom.previousSibling[n] # doc
       /\ doc \notin Range(dom.childNodes[n])

\* C4: a mutating call that ends with an error leaves every node's links,
\* child list and owner reference exactly as they were before the call.
C4_FailedCallChangesNothing ==
  (last.op \in Mutations /\ last.threw) => dom = last.pre

\* C5: an insertion of a node that already has a parent moves it: afterwards
\* it is in the target's child list exactly once and in no other child list;
\* hence every node occurs in at most one child list, at most once.
C5_MoveNeverCopies ==
  /\ ( /\ last.op \in {"insertBefore", "appendChild"}
       /\ ~last.threw
       /\ last.newChild \notin Fragments
       /\ last.pre.parentNode[last.newChild] # Null )
     => /\ Count(dom.childNodes[last.this], last.newChild) = 1
        /\ \A q \in Nodes \ {last.this} :
             last.newChild \notin Range(dom.childNodes[q])
  /\ \A n \in Nodes :
       /\ Cardinality({p \in Nodes : n \in Range(dom.childNodes[p])}) <= 1
       /\ \A p \in Nodes : Count(dom.childNodes[p], n) <= 1

\* The children of p after c1..cn were inserted before ref (at the end when
\* ref is null).
InsertedBefore(list, ref, items) ==
  IF ref = Null THEN list \o items
  ELSE LET i == indexOf(list, ref)
       IN SubSeq(list, 1, i) \o items \o SubSeq(list, i + 1, Len(list))

\* C6: inserting a DocumentFragment with children c1..cn moves all of them,
\* in order, immediately before refChild (to the end when refChild is null),
\* and leaves the fragment empty and unlinked.
C6_FragmentChildrenAllMove ==
  ( /\ last.op \in {"insertBefore", "appendChild"}
    /\ ~last.threw
    /\ last.newChild \in Fragments
    /\ last.this # last.newChild
    /\ last.ref # last.newChild
    /\ WellFormed(last.pre) )
  => /\ dom.childNodes[last.this] =
          InsertedBefore(last.pre.childNodes[last.this], last.ref,
                         last.pre.childNodes[last.newChild])
     /\ dom.childNodes[last.newChild] = <<>>
     /\ dom.firstChild[last.newChild] = Null
     /\ dom.lastChild[last.newChild] = Null
     /\ dom.parentNode[last.newChild] = Null
     /\ \A n \in Nodes : last.newChild \notin Range(dom.childNodes[n])

\* A successful insertion of a node that is no DocumentFragment.
InsertedNode ==
  /\ last.op \in {"insertBefore", "appendChild"}
  /\ ~last.threw
  /\ last.newChild \notin Fragments

\* Where a successful insertion puts the node: immediately before ref, or
\* last when ref is null, the other children keeping their relative order.
PlacedBeforeRef ==
  /\ dom.parentNode[last.newChild] = last.this
  /\ last.newChild \in Range(dom.childNodes[last.this])
  /\ dom.nextSibling[last.newChild] = last.ref
  /\ last.ref # Null => dom.previousSibling[last.ref] = last.newChild
  /\ last.ref = Null => dom.lastChild[last.this] = last.newChild
  /\ Without(dom.childNodes[last.this], last.newChild)
       = Without(last.pre.childNodes[last.this], last.newChild)

Fields ==
  {"parentNode", "firstChild", "lastChild", "previousSibling", "nextSibling",
   "ownerDocument", "childNodes"}

\* The fields of node n in which tree e differs from tree d.
Changed(d, e, n) == {f \in Fields : d[f][n] # e[f][n]}

\* A successful p.removeChild(c).
RemovedChild == last.op = "removeChild" /\ ~last.threw

\* What a successful p.removeChild(c) does to p, to c, to c's former
\* neighbours and to nothing else.
RemovesExactly(p, c) ==
  LET pv == last.pre.previousSibling[c]
      nx == last.pre.nextSibling[c]
  IN /\ last.ret = c
     /\ dom.childNodes[p]
          = deleteListIndex(last.pre.childNodes[p],
                            indexOf(last.pre.childNodes[p], c))
     /\ dom.parentNode[c] = Null
     /\ dom.previousSibling[c] = Null
     /\ dom.nextSibling[c] = Null
     /\ (pv # Null /\ pv # c) => dom.nextSibling[pv] = nx
     /\ (nx # Null /\ nx # c) => dom.previousSibling[nx] = pv
     /\ Changed(last.pre, dom, c)
          \subseteq ({"parentNode", "previousSibling", "nextSibling"}
                       \cup (IF c = p THEN {"childNodes", "firstChild", "lastChild"}
                                      ELSE {}))
     /\ \A n \in Nodes \ {c} :
          Changed(last.pre, dom, n)
            \subseteq (IF n = p THEN {"childNodes", "firstChild", "lastChild"} ELSE {})
                 \cup (IF n = pv THEN {"nextSibling"} ELSE {})
                 \cup (IF n = nx THEN {"previousSibling"} ELSE {})

\* C8 (as stated): a successful p.removeChild(c) removes exactly c, makes its
\* former neighbours adjacent, nulls c's parent and sibling links, leaves c's
\* subtree and every other node alone, returns c, and c can be inserted again
\* under any parent.
C8_RemoveDetachesExactly ==
  RemovedChild =>
    /\ RemovesExactly(last.this, last.ref)
    /\ \A q \in Nodes \ Attrs : ~appendChild(dom, q, last.ref).threw

C11_IndexWriteReachesTree ==
  lastRead.kind = "write" =>
    /\ at(childrenItems(dom, coll.owner), lastRead.index) = lastRead.value
    /\ readValue("index", lastRead.index, refreshList(dom, coll).storage)
         = lastRead.value

\* The node holding a role in the document's tree now.
CurrentRole(kind) ==
  LET docEl == firstElementChild(dom, "doc")
  IN IF kind = "documentElement" THEN docEl
     ELSE IF docEl = Null THEN Null
     ELSE headFrom(dom, dom.firstChild[docEl], MaxWalk)

\* C12: after any sequence of tree mutations, documentElement and head
\* return the node that holds that role in the document's tree now (the
\* first Element child of the document; the first head element child of
\* that element), or null when there is none.
C12_RolesAreCurrent ==
  lastRead.kind \in {"documentElement", "head"} =>
    lastRead.value = CurrentRole(lastRead.kind)

\* The ids on the wire's firstChild / nextSibling chain of record id.
RECURSIVE wireChain(_, _, _)
wireChain(w, id, fuel) ==
  IF id = NoId \/ fuel = 0 THEN <<>>
  ELSE <<id>> \o wireChain(w, w.nextSibling[id], fuel - 1)

wireChildren(w, id) ==
  [k \in 1..Len(wireChain(w, w.firstChild[id], MaxWalk)) |->
     instance(wireChain(w, w.firstChild[id], MaxWalk)[k])]

HoldersOf(a) == {el \in AttrElements : a \in Range(attrs.list[el])}

\* C14: after any sequence of attribute operations every Attr is in the
\* attribute map of at most one Element (once), its ownerElement is that
\* Element when it is in a map and null when it is in none.
C14_AttrOwnedByItsMap ==
  \A a \in AttrPool \ FreeAttrs(attrs) :
    /\ Cardinality(HoldersOf(a)) <= 1
    /\ \A el \in AttrElements : Count(attrs.list[el], a) <= 1
    /\ \A el \in HoldersOf(a) : attrs.ownerElement[a] = el
    /\ HoldersOf(a) = {} => attrs.ownerElement[a] = Null

\* C15: after any sequence of tree mutations no Attr is in a child list or
\* a sibling chain: its parentNode, previousSibling and nextSibling are
\* null, and no node's firstChild, lastChild or sibling pointers refer to
\* an Attr.
C15_AttrNeverInTree ==
  /\ \A a \in Attrs :
       /\ dom.parentNode[a] = Null
       /\ dom.previousSibling[a] = Null
       /\ dom.nextSibling[a] = Null
  /\ \A n \in Nodes :
       /\ dom.firstChild[n] \notin Attrs
       /\ dom.lastChild[n] \notin Attrs
       /\ dom.previousSibling[n] \notin Attrs
       /\ dom.nextSibling[n] \notin Attrs
       /\ Range(dom.childNodes[n]) \cap Attrs = {}

\* The objects of the subtree of n, n included.
RECURSIVE Subtree(_, _)
Subtree(H, n) ==
  {n} \cup UNION {Subtree(H, H[n].childNodes[i]) : i \in 1..Len(H[n].childNodes)}

\* What a subtree looks like regardless of which objects make it up.
RECURSIVE Shape(_, _)
Shape(H, n) ==
  <<H[n].nodeType, H[n].nodeName, H[n].nodeValue, H[n].attributes,
    [i \in 1..Len(H[n].childNodes) |-> Shape(H, H[n].childNodes[i])]>>

DeepClones == {i \in 1..Len(objs.calls) : objs.calls[i].deep}
ShallowClones == {i \in 1..Len(objs.calls) : ~objs.calls[i].deep}

\* C16: n.cloneNode(true) returns a detached node whose subtree reproduces
\* n's whole subtree, children of every kind in order, so that the clone
\* isEqualNode n; no node of the clone is a node of the source and the
\* source tree is unchanged.
C16_DeepCloneReproducesSubtree ==
  \A i \in DeepClones :
    /\ objs.heap[objs.calls[i].ret].parentNode = NoNode
    /\ Shape(objs.heap, objs.calls[i].ret) = Shape(objs.heap, objs.calls[i].this)
    /\ isEqualNode(objs.heap, objs.calls[i].ret, objs.calls[i].this)
    /\ Subtree(objs.heap, objs.calls[i].ret)
         \cap Subtree(objs.heap, objs.calls[i].this) = {}
    /\ SubSeq(objs.heap, 1, Len(objs.calls[i].pre)) = objs.calls[i].pre

\* Nodes a and b carry the same nodeType, name, value and attribute pairs.
SameShallow(a, b) ==
  /\ objs.heap[a].nodeType = objs.heap[b].nodeType
  /\ objs.heap[a].nodeName = objs.heap[b].nodeName
  /\ objs.heap[a].nodeValue = objs.heap[b].nodeValue
  /\ objs.heap[a].attributes = objs.heap[b].attributes

\* C17: two calls n.cloneNode(false) return two nodes distinct from each
\* other and from n, without parent or children, that carry the same
\* nodeType, name, value and ordered attribute pairs as n and each other.
C17_ShallowClonesAlike ==
  \A i, j \in ShallowClones :
    (i # j /\ objs.calls[i].this = objs.calls[j].this) =>
      /\ objs.calls[i].ret # objs.calls[j].ret
      /\ objs.calls[i].ret # objs.calls[i].this
      /\ objs.heap[objs.calls[i].ret].parentNode = NoNode
      /\ objs.heap[objs.calls[i].ret].childNodes = <<>>
      /\ SameShallow(objs.calls[i].ret, objs.calls[i].this)
      /\ SameShallow(objs.calls[i].ret, objs.calls[j].ret)

\* The conditions under which two nodes are to be equal: equal nodeType,
\* nodeName and nodeValue, the same attribute pairs in order, as many
\* children, pairwise equal.
Alike(H, a, b) ==
  /\ H[a].nodeType = H[b].nodeType
  /\ H[a].nodeName = H[b].nodeName
  /\ H[a].nodeValue = H[b].nodeValue
  /\ H[a].attributes = H[b].attributes
  /\ Len(H[a].childNodes) = Len(H[b].childNodes)
  /\ \A i \in 1..Len(H[a].childNodes) :
       i <= Len(H[b].childNodes)
         => isEqualNode(H, H[a].childNodes[i], H[b].childNodes[i])

Objects == 1..Len(objs.heap)

CurrentTokens == firstOccurrences(updateTokens(tok).tokens)

\* C19: every read of a token list (length, value, item, contains,
\* iteration), at any time after it was created, yields the tokens of the
\* attribute's current value, in first-occurrence order without
\* duplicates, also after setAttribute changed the attribute.
C19_TokenReadsAreCurrent ==
  /\ tok.op.name = "length" => tok.op.ret = Len(CurrentTokens)
  /\ tok.op.name = "value" => tok.op.ret = join(CurrentTokens)
  /\ tok.op.name = "item" =>
       tok.op.ret = IF tok.op.added[1] < Len(CurrentTokens)
                      THEN <<CurrentTokens[tok.op.added[1] + 1]>> ELSE <<>>
  /\ tok.op.name = "contains" =>
       tok.op.ret = (tok.op.added[1] \in Range(CurrentTokens))
  /\ tok.op.name = "iterate" => tok.op.ret = CurrentTokens

\* C20: after each add, remove, toggle or replace the attribute's value is
\* the list's tokens joined by single spaces, the tokens have no
\* duplicate, a token just added is among them and a token just removed
\* is not.
C20_TokenWritesReachAttribute ==
  tok.op.name \in {"add", "remove", "toggle", "replace"} =>
    /\ tok.has /\ tok.value = join(tok.tokens)
    /\ \A t \in Range(tok.tokens) : Count(tok.tokens, t) = 1
    /\ \A t \in Range(tok.op.added) : t \in Range(tok.tokens)
    /\ \A t \in Range(tok.op.removed) : t \notin Range(tok.tokens)

\* C21: every read of a dataset attached to an element reflects the
\* element's current data-* attributes: the value set with setAttribute,
\* and no key once the attribute is removed.
C21_DatasetReadsAreCurrent ==
  (ds.op.name = "read" /\ ds.node) =>
    ds.op.ret = ds.attr[toAttrName(ds.op.key)]

\* C22: after view[k] = v on an attached dataset the element's attribute
\* of the matching data-* name has value v, whether or not it existed
\* before; after delete view[k] the attribute is absent; a dataset without
\* owner element changes no attribute.
C22_DatasetWritesReachElement ==
  /\ (ds.op.name = "write" /\ ds.node) =>
       ds.attr[toAttrName(ds.op.key)] = ds.op.value
  /\ (ds.op.name = "delete" /\ ds.node) =>
       ds.attr[toAttrName(ds.op.key)] = Null
  /\ (ds.op.name \in {"write", "delete"} /\ ~ds.node) => ds.attr = ds.op.pre

\* The nodes below n in document order (pre-order, depth first).
RECURSIVE preorderFrom(_, _, _)
preorderFrom(d, n, i) ==
  IF i > Len(d.childNodes[n]) THEN <<>>
  ELSE <<d.childNodes[n][i]>> \o preorderFrom(d, d.childNodes[n][i], 1)
       \o preorderFrom(d, n, i + 1)

Preorder(d, n) == preorderFrom(d, n, 1)

\* The position of element e among the element children of its own parent
\* (1 for the first; 0 for an element without parent).
PositionOf(d, e) ==
  IF d.parentNode[e] = Null THEN 0
  ELSE Cardinality({i \in 1..Len(d.childNodes[d.parentNode[e]]) :
         /\ d.childNodes[d.parentNode[e]][i] \in Elements
         /\ i <= CHOOSE j \in 1..Len(d.childNodes[d.parentNode[e]]) :
                   d.childNodes[d.parentNode[e]][j] = e})

ElementSiblings(d, e) ==
  IF d.parentNode[e] = Null THEN 0
  ELSE Cardinality(Range(d.childNodes[d.parentNode[e]]) \cap Elements)

\* Element e satisfies simple selector t, positions taken in e's own parent.
MatchesToken(d, t, e) ==
  /\ e \in Elements
  /\ CASE t.type = "type" -> nodeName(e) = t.name
       [] t.type = "class" ->
            /\ hasClass(d, e)
            /\ t.name \in Range(StringPrototypeSplit(classValue(d, e)))
       [] t.type = "universal" -> TRUE
       [] t.pseudo = "first-child" -> PositionOf(d, e) = 1
       [] t.pseudo = "last-child" ->
            PositionOf(d, e) > 0 /\ PositionOf(d, e) = ElementSiblings(d, e)
       [] t.pseudo = "only-child" ->
            PositionOf(d, e) = 1 /\ ElementSiblings(d, e) = 1
       [] t.argument = "odd" -> PositionOf(d, e) % 2 = 1
       [] t.argument = "even" ->
            PositionOf(d, e) > 0 /\ PositionOf(d, e) % 2 = 0
       [] OTHER -> PositionOf(d, e) = NumberOf(t.argument)

MatchesAll(d, list, e) == \A i \in 1..Len(list) : MatchesToken(d, list[i], e)

\* The siblings before e in its parent's list, nearest last.
Preceding(d, e) ==
  IF d.parentNode[e] = Null THEN <<>>
  ELSE SubSeq(d.childNodes[d.parentNode[e]], 1,
              (CHOOSE j \in 1..Len(d.childNodes[d.parentNode[e]]) :
                 d.childNodes[d.parentNode[e]][j] = e) - 1)

PrecedingElements(d, e) == SelectSeq(Preceding(d, e), LAMBDA n : n \in Elements)

\* The combinator's relation of e to some node matching the left selector.
Related(d, s, e) ==
  CASE s.combinator = ">" -> MatchesAll(d, s.left, d.parentNode[e])
    [] s.combinator = " " ->
         \E a \in Range(ancestors(d, e)) : MatchesAll(d, s.left, a)
    [] s.combinator = "~" ->
         \E p \in Range(Preceding(d, e)) : MatchesAll(d, s.left, p)
    [] s.combinator = "+" ->
         /\ PrecedingElements(d, e) # <<>>
         /\ MatchesAll(d, s.left,
              PrecedingElements(d, e)[Len(PrecedingElements(d, e))])

\* Element e matches the valid selector s.
Selects(d, s, e) ==
  /\ MatchesAll(d, s.right, e)
  /\ s.type = "complex" => Related(d, s, e)

\* The element descendants of root matching s, in document order.
Selected(d, root, s) ==
  SelectSeq(Preorder(d, root), LAMBDA n : n \in Elements /\ Selects(d, s, n))

\* C23: the list querySelectorAll returns for a valid selector is exactly
\* the element descendants of the root, at any depth, that match the
\* selector, each once and in document order, never a non-element node
\* and never the root.
C23_QueryAllInDocumentOrder ==
  (sel.name = "querySelectorAll" /\ sel.selector.type # "invalid") =>
    /\ ~sel.threw
    /\ sel.nodes = Selected(dom, sel.root, sel.selector)

\* C24: querySelector returns the first element of the list that
\* querySelectorAll returns for the same root and valid selector, and
\* null when that list is empty.
C24_QueryFirstMatch ==
  (sel.name = "querySelector" /\ sel.selector.type # "invalid") =>
    /\ ~sel.threw
    /\ sel.value =
         IF querySelectorAll(dom, sel.root, sel.selector).nodes = <<>> THEN Null
         ELSE querySelectorAll(dom, sel.root, sel.selector).nodes[1]

\* C25: for a complex selector, at any depth, an element is matched iff it
\* matches the right selector and the combinator relates it to a node
\* matching the left selector: its parent for ">", an ancestor for " ", a
\* preceding sibling for "~", the element sibling just before it for "+".
C25_CombinatorsRelateToLeft ==
  /\ (sel.name = "querySelectorAll" /\ sel.selector.type = "complex") =>
       sel.nodes = Selected(dom, sel.root, sel.selector)
  /\ (sel.name = "matches" /\ sel.selector.type = "complex") =>
       sel.value = BoolValue(Selects(dom, sel.selector, sel.root))

\* A compound selector holding a structural pseudo-class.
Structural(s) ==
  /\ s.type = "compound"
  /\ \E i \in 1..Len(s.right) : s.right[i].type = "pseudo-class"

\* C26: :first-child, :last-child, :only-child and :nth-child are decided
\* from the element's position among the element children of its own
\* parent, at any depth below the query root, text siblings not counted.
C26_PositionInOwnParent ==
  (sel.name = "querySelectorAll" /\ Structural(sel.selector)) =>
    \A e \in Elements :
      e \in Range(sel.nodes) <=>
        /\ e \in Range(Preorder(dom, sel.root))
        /\ MatchesAll(dom, sel.selector.right, e)

\* C28: with a selector the parser rejects, querySelector returns null
\* and querySelectorAll an empty list, neither raising, while matches
\* raises; a valid selector matching nothing gives null or an empty list
\* and no error.
C28_InvalidSelectorIsNoMatch ==
  /\ (sel.name = "querySelector" /\ sel.selector.type = "invalid") =>
       (~sel.threw /\ sel.value = Null)
  /\ (sel.name = "querySelectorAll" /\ sel.selector.type = "invalid") =>
       (~sel.threw /\ sel.nodes = <<>>)
  /\ (sel.name = "matches" /\ sel.selector.type = "invalid") => sel.threw
  /\ (/\ sel.name \in {"querySelector", "querySelectorAll"}
      /\ sel.selector.type # "invalid"
      /\ Selected(dom, sel.root, sel.selector) = <<>>) =>
       (~sel.threw /\ sel.value = Null /\ sel.nodes = <<>>)

\* The test operator `op` stands for, on attribute value v.
Satisfies(op, v, value) ==
  CASE op = "=" -> v = value
    [] op = "~=" -> \E t \in Range(StringPrototypeSplit(v)) : t = value
    [] op = "|=" -> v = value \/ startsWith(v, value \o <<"-">>)
    [] op = "*=" -> includesString(v, value)
    [] op = "^=" -> startsWith(v, value)
    [] op = "$=" -> endsWith(v, value)

\* C27: an attribute selector matches an element iff the element has an
\* attribute of that name whose value satisfies the operator's test
\* (lowercased on both sides under the case-insensitive flag), and each
\* operator's comparison is the one it stands for.
C27_AttributeOperators ==
  /\ sel.name = "attribute" =>
       /\ ~sel.threw
       /\ sel.value = BoolValue(
            \E i \in 1..Len(sel.attributes) :
              /\ sel.attributes[i].name = sel.selector.name
              /\ sel.selector.operator # "" =>
                   IF sel.selector.caseSensitive = "i"
                     THEN Satisfies(sel.selector.operator,
                                    toLowerCase(sel.attributes[i].value),
                                    toLowerCase(sel.selector.value))
                     ELSE Satisfies(sel.selector.operator,
                                    sel.attributes[i].value,
                                    sel.selector.value))
  /\ sel.name = "getAttributeMatch" =>
       sel.value = BoolValue(Satisfies(sel.selector.operator, sel.a, sel.b))

\* C29: the list querySelectorAll returned keeps the items it was returned
\* with across every later step (insertions, removals, attribute changes,
\* reads), and every read of length, an index or the iteration answers
\* from those items.
C29_QueryListIsStatic ==
  /\ [][coll # NoColl => coll'.storage = coll.storage]_vars
  /\ [](lastRead.kind \in {"length", "index", "iterate"} =>
          lastRead.value =
            readValue(lastRead.kind, lastRead.index, coll.storage))

\* A read made of a kept list that the same query would no longer return.
C29_Witness ==
  /\ coll # NoColl
  /\ lastRead.kind \in {"length", "index", "iterate"}
  /\ WellFormed(dom)
  /\ ParentNodeQuerySelectorAll(dom, coll.owner, coll.arg).storage
       # coll.storage
  /\ coll.storage # <<>>

\* The element of call c had, before the call, no attribute of the name
\* (for the NS calls: of the namespace and local name) the call gives.
NotPresent(c) ==
  ~\E i \in 1..Len(c.pre.list[c.this]) :
     /\ c.pre.name[c.pre.list[c.this][i]] = c.name
     /\ c.op \in {"removeAttributeNS", "removeNamedItemNS"} =>
          namespaceURI(c.pre, c.pre.list[c.this][i]) = c.namespace

\* C30: removeAttribute, removeAttributeNS, removeNamedItem and
\* removeNamedItemNS of an attribute that is not present raise and leave
\* the attributes as they were.
C30_RemovingMissingAttributeFails ==
  (/\ last.op \in {"removeAttribute", "removeAttributeNS",
                   "removeNamedItem", "removeNamedItemNS"}
   /\ NotPresent(last)) =>
    (last.threw /\ attrs = last.pre)

\* C31: buildSubtree of a non-document record without build context raises
\* and returns no node, whatever parent, previous sibling and next sibling
\* it is given and whether or not the record is resolved; the tree is as
\* before.
C31_SubtreeNeedsContext ==
  last.op = "buildSubtree" => (last.threw /\ dom = last.pre)

\* C32: on every tree reached by public mutations each walk comes back
\* within a number of steps bounded by the number of nodes: the walk up
\* the parent links (getRootNode, isConnected), the walk down the child
\* lists (textContent, cloneNode(true), normalize, querySelectorAll) and
\* the traversal behind getElementsByTagName.
C32_WalksTerminate ==
  \A n \in Nodes :
    /\ getRootNode(dom, n) # Endless
    /\ descend(dom, n) # Endless
    /\ Endless \notin Range(tagNameItems(dom, n, "*"))

\* C33: for every node p the childNodes list is the sequence met following
\* nextSibling from p.firstChild, so the reads made from the list
\* (childElementCount) and those made from the links (children) describe
\* the same children in the same order.
C33_ListEqualsChain ==
  \A p \in Nodes :
    /\ dom.childNodes[p] = forwardChain(dom, p)
    /\ childElementCount(dom, p) = Len(childrenItems(dom, p))

\* C34: every node reachable from a Document d by child links has
\* ownerDocument d, and d.ownerDocument is d itself.
C34_ReachableNodesOwnedByDocument ==
  \A document \in Documents :
    /\ dom.ownerDocument[document] = document
    /\ \A n \in Nodes :
         document \in Range(ancestors(dom, n))
           => dom.ownerDocument[n] = document

\* The list L with newChild taken out of its old place and put where
\* oldChild is.
Replaced(L, newChild, oldChild) ==
  [i \in 1..Len(Without(L, newChild)) |->
     IF Without(L, newChild)[i] = oldChild THEN newChild
     ELSE Without(L, newChild)[i]]

\* A replaceChild call that has just returned normally from a well-formed
\* tree in which oldChild was a child of the receiver.
Replacing ==
  /\ last.op = "replaceChild"
  /\ ~last.threw
  /\ WellFormed(last.pre)
  /\ last.pre.parentNode[last.ref] = last.this

\* C35: after a successful p.replaceChild(newChild, oldChild) newChild is
\* where oldChild was, oldChild is detached and returned and the other
\* children keep their order; with newChild the same node as oldChild the
\* child list of p is unchanged.
C35_ReplaceChildTakesPosition ==
  Replacing =>
    IF last.newChild = last.ref
      THEN dom.childNodes[last.this] = last.pre.childNodes[last.this]
      ELSE /\ last.newChild \notin Fragments
              => dom.childNodes[last.this]
                   = Replaced(last.pre.childNodes[last.this],
                              last.newChild, last.ref)
           /\ dom.parentNode[last.ref] = Null
           /\ last.ret = last.ref

\* The descendant elements of owner with tag name tag (every element for
\* "*"), in document order.
DescendantsByTagName(d, owner, tag) ==
  SelectSeq(Preorder(d, owner),
            LAMBDA n : n \in Elements /\ (tag = "*" \/ tagName(n) = tag))

\* C36: a read of a getElementsByTagName(name) collection made on a
\* well-formed tree yields every descendant element of the owner with that
\* tag name, at any depth and under any sibling, in document order, and
\* nothing else.
C36_TagNameCollectionIsComplete ==
  (/\ coll.rule = "tagName"
   /\ last.op = "read"
   /\ lastRead.kind = "iterate"
   /\ WellFormed(dom))
    => lastRead.value = DescendantsByTagName(dom, coll.owner, coll.arg)

\* C37: evaluating an attribute selector on an element, with or without
\* the case-insensitive flag, leaves the element's attributes as they were:
\* the same names with the same values in the same order.
C37_SelectorEvaluationIsReadOnly ==
  sel.name = "attribute" => sel.after = sel.attributes

\* An attribute selector with the "i" flag has been evaluated on an element
\* whose attributes give the matcher's loop an entry to visit.
C37_Witness ==
  /\ sel.name = "attribute"
  /\ sel.selector.caseSensitive = "i"
  /\ objectEntries(sel.attributes) # <<>>
  /\ sel.threw

\* textContent of object n of heap H: the texts of its subtree in order.
RECURSIVE textContentFrom(_, _, _)
textContentFrom(H, n, i) ==
  IF H[n].nodeType = TEXT_NODE THEN H[n].nodeValue
  ELSE IF i > Len(H[n].childNodes) THEN <<>>
  ELSE textContentFrom(H, H[n].childNodes[i], 1) \o textContentFrom(H, n, i + 1)

\* The objects below n that are not Texts, in document order.
RECURSIVE nonTextFrom(_, _, _)
nonTextFrom(H, n, i) ==
  IF i > Len(H[n].childNodes) THEN <<>>
  ELSE (IF H[H[n].childNodes[i]].nodeType = TEXT_NODE THEN <<>>
        ELSE <<H[n].childNodes[i]>> \o nonTextFrom(H, H[n].childNodes[i], 1))
       \o nonTextFrom(H, n, i + 1)

\* n and the objects below it.
SubtreeOf(H, n) == {n} \cup Range(nonTextFrom(H, n, 1))

\* No two neighbouring children of n are Texts and no child is an empty
\* Text.
Normalized(H, n) ==
  /\ \A i \in 1..Len(H[n].childNodes) :
       H[H[n].childNodes[i]].nodeType = TEXT_NODE
         => H[H[n].childNodes[i]].nodeValue # <<>>
  /\ \A i \in 1..(Len(H[n].childNodes) - 1) :
       ~(/\ H[H[n].childNodes[i]].nodeType = TEXT_NODE
         /\ H[H[n].childNodes[i + 1]].nodeType = TEXT_NODE)

\* C38: after p.normalize() no node of p's subtree has two adjacent Text
\* children or an empty Text child, the text content of p is what it was
\* and the nodes that are not Texts are all there in their original order.
C38_NormalizeMergesText ==
  objs.calls # <<>> =>
    /\ ~objs.calls[1].threw
    /\ \A n \in SubtreeOf(objs.heap, objs.calls[1].this) :
         Normalized(objs.heap, n)
    /\ textContentFrom(objs.heap, objs.calls[1].this, 1)
         = textContentFrom(objs.calls[1].pre, objs.calls[1].this, 1)
    /\ nonTextFrom(objs.heap, objs.calls[1].this, 1)
         = nonTextFrom(objs.calls[1].pre, objs.calls[1].this, 1)

\* The root of object n of heap H.
RECURSIVE heapRoot(_, _)
heapRoot(H, n) ==
  IF H[n].parentNode = NoNode THEN n ELSE heapRoot(H, H[n].parentNode)

\* The private fields of document doc cleared: its accessors then answer
\* from its tree.
Uncached(H, doc) ==
  [H EXCEPT ![doc].documentElement = NoNode, ![doc].doctype = NoNode,
            ![doc].head = NoNode, ![doc].body = NoNode]

\* C39: for a deep clone d2 of a Document d, d2.documentElement, d2.head,
\* d2.body and d2.doctype are the nodes of d2's own tree that have these
\* roles: not nodes of d and not detached copies.
C39_CloneRolesInOwnTree ==
  (objs.calls # <<>> /\ objs.calls[1].deep) =>
    \A role \in Roles :
      /\ docRole(objs.heap, objs.calls[1].ret, role)
           = docRole(Uncached(objs.heap, objs.calls[1].ret),
                     objs.calls[1].ret, role)
      /\ docRole(objs.heap, objs.calls[1].ret, role) # NoNode
           => heapRoot(objs.heap,
                       docRole(objs.heap, objs.calls[1].ret, role))
                = objs.calls[1].ret

\* The attributes of element el as name / value pairs, in order.
PairsOf(A, el) ==
  [i \in 1..Len(A.list[el]) |->
     <<A.name[A.list[el][i]], A.value[A.list[el][i]]>>]

\* The positions of the attributes of el called name.
PositionsOf(A, el, name) ==
  {i \in 1..Len(A.list[el]) : A.name[A.list[el][i]] = name}

\* C40: after e.setAttribute(name, v), whatever the attributes of e were,
\* e has exactly one attribute called name, its value is v, it is where
\* the previous attribute of that name was or at the end, and every other
\* attribute of e has the value and the relative order it had.
C40_SetAttributeSetsOne ==
  last.op = "setAttribute" =>
    /\ Cardinality(PositionsOf(attrs, last.this, last.name)) = 1
    /\ \A i \in PositionsOf(attrs, last.this, last.name) :
         /\ PairsOf(attrs, last.this)[i] = <<last.name, last.value>>
         /\ IF PositionsOf(last.pre, last.this, last.name) = {}
              THEN i = Len(last.pre.list[last.this]) + 1
              ELSE i \in PositionsOf(last.pre, last.this, last.name)
    /\ SelectSeq(PairsOf(attrs, last.this), LAMBDA p : p[1] # last.name)
         = SelectSeq(PairsOf(last.pre, last.this),
                     LAMBDA p : p[1] # last.name)

====
